---- MODULE Spec2Model ----
(***************************************************************************)
(* A model of the carbn.py toolchain: the internal AST (ast_nodes.py), the *)
(* optimizer pipeline (optimizer.py), the bytecode generator (codegen.py)  *)
(* and the driver's call chain (main.py).                                  *)
(*                                                                         *)
(* Python strings that reach the byte stream (identifiers, string          *)
(* literals, function names) are modelled as the sequence of their UTF-8   *)
(* bytes, so that str.encode, len and concatenation are computed.          *)
(* Operator tags, which are only looked up in the OpCode enumeration, are  *)
(* TLA+ strings.                                                           *)
(*                                                                         *)
(* ast_nodes.py declares neither Return nor FString although codegen.py    *)
(* and optimizer.py test isinstance(node, Return) / isinstance(node,       *)
(* FString) and construct Return nodes.  The model takes both classes as   *)
(* declared: Return as the specification describes it (an optional value   *)
(* expression), FString as a class no tree of the model instantiates.      *)
(***************************************************************************)
EXTENDS Integers, Sequences, FiniteSets, TLC

VARIABLES src, ast, args_optimize, optimizer, codegen, out, pc, output_file, exit_code

vars == <<src, ast, args_optimize, optimizer, codegen, out, pc, output_file, exit_code>>

(***************************************************************************)
(* Strings (UTF-8 byte sequences)                                          *)
(***************************************************************************)
S_print   == <<112, 114, 105, 110, 116>>
S_input   == <<105, 110, 112, 117, 116>>
S_len     == <<108, 101, 110>>
S_int     == <<105, 110, 116>>
S_float   == <<102, 108, 111, 97, 116>>
S_range   == <<114, 97, 110, 103, 101>>
S_abs     == <<97, 98, 115>>
S_min     == <<109, 105, 110>>
S_max     == <<109, 97, 120>>
S_fib     == <<102, 105, 98>>
S_counter == <<95, 99, 111, 117, 110, 116, 101, 114>>
S_orig    == <<95, 111, 114, 105, 103>>
S_us      == <<95>>
S_a == <<97>>
S_b == <<98>>
S_c == <<99>>
S_f == <<102>>
S_g == <<103>>
S_i == <<105>>
S_n == <<110>>
S_s == <<115>>
S_x == <<120>>
S_y == <<121>>

(***************************************************************************)
(* AST nodes (ast_nodes.py).  A node is a record tagged by kind.  Fields   *)
(* keep the dataclass names, except where two classes use one name for     *)
(* values of different types: FunctionDef.args is params here, and         *)
(* For.target (a node) is target_node; Assignment.target is a string.      *)
(* A Constant carries its dynamic type ty and its value: num / 2^exp for   *)
(* int (exp = 0), bool (num in {0,1}) and float; str for strings.          *)
(***************************************************************************)
NoneNode == [kind |-> "None"]

Module(body) == [kind |-> "Module", body |-> body]

Assignment(target, value) == [kind |-> "Assignment", target |-> target, value |-> value]

BinaryOp(left, op, right) == [kind |-> "BinaryOp", left |-> left, op |-> op, right |-> right]

UnaryOp(op, operand) == [kind |-> "UnaryOp", op |-> op, operand |-> operand]

Compare(left, ops, comparators) ==
    [kind |-> "Compare", left |-> left, ops |-> ops, comparators |-> comparators]

BoolOp(op, values) == [kind |-> "BoolOp", op |-> op, values |-> values]

Call(func, args) == [kind |-> "Call", func |-> func, args |-> args]

Name(id) == [kind |-> "Name", id |-> id]

Constant(ty, num, exp, str) ==
    [kind |-> "Constant", ty |-> ty, num |-> num, exp |-> exp, str |-> str]

If(test, body, orelse) == [kind |-> "If", test |-> test, body |-> body, orelse |-> orelse]

For(target, iter, body) ==
    [kind |-> "For", target_node |-> target, iter |-> iter, body |-> body]

While(test, body) == [kind |-> "While", test |-> test, body |-> body]

ListNode(elts) == [kind |-> "ListNode", elts |-> elts]

Expr(value) == [kind |-> "Expr", value |-> value]

FunctionDef(name, params, body) ==
    [kind |-> "FunctionDef", name |-> name, params |-> params, body |-> body]

Return(value) == [kind |-> "Return", value |-> value]

IntC(n)   == Constant("int", n, 0, <<>>)
BoolC(b)  == Constant("bool", IF b THEN 1 ELSE 0, 0, <<>>)
FloatC(n, e) == Constant("float", n, e, <<>>)
StrC(s)   == Constant("str", 0, 0, s)
NullC     == Constant("null", 0, 0, <<>>)

\* isinstance(v, int) is true of a bool: bool is a subclass of int.
IsInstanceInt(c)   == c.ty \in {"int", "bool"}
IsInstanceStr(c)   == c.ty = "str"
IsInstanceFloat(c) == c.ty = "float"
IsInstanceBool(c)  == c.ty = "bool"

(***************************************************************************)
(* Opcodes and operand encoding (codegen.py)                               *)
(***************************************************************************)
OpCode ==
    [PRINT |-> 1, LOAD_CONST |-> 2, LOAD_INT |-> 3, LOOP_START |-> 4, LOOP_END |-> 5,
     LOAD_VAR |-> 6, STDIN |-> 7, STORE |-> 8, ADD |-> 9, SUB |-> 10, MUL |-> 11,
     DIV |-> 12, MOD |-> 13, EQ |-> 14, NE |-> 15, LT |-> 16, LE |-> 17, GT |-> 18,
     GE |-> 19, AND |-> 20, OR |-> 21, NOT |-> 22, JMP |-> 23, JMP_IF_FALSE |-> 24,
     JMP_IF_TRUE |-> 25, CALL |-> 26, RET |-> 27, LOAD_FLOAT |-> 28, CAST_INT |-> 29,
     CAST_FLOAT |-> 30, ARRAY_NEW |-> 31, ARRAY_GET |-> 32, ARRAY_SET |-> 33,
     ARRAY_LEN |-> 34, DUP |-> 35, SWAP |-> 36, POP |-> 37, LOAD_NULL |-> 38,
     IS_NULL |-> 39, LOAD_BOOL |-> 40, BUILD_LIST |-> 41, BUILD_TUPLE |-> 42,
     BUILD_DICT |-> 43]

\* getattr(OpCode, tag) succeeds exactly on the member names.
HasOpCode(tag) == tag \in DOMAIN OpCode

Pow2(k) == 2 ^ k

\* struct.pack(">Q", n & ((1 << 64) - 1)): big-endian, two's complement.
\* Model integers stay below 2^31 in magnitude, so bytes 4..7 are the sign fill.
Pack64(n) ==
    [j \in 1..8 |->
        LET k == 8 - j
        IN IF k >= 4 THEN (IF n < 0 THEN 255 ELSE 0)
           ELSE (n \div (256 ^ k)) % 256]

\* The value of an 8-byte big-endian field, for operands below 2^31; -1 otherwise.
Unpack64(b) ==
    IF b[1] = 0 /\ b[2] = 0 /\ b[3] = 0 /\ b[4] = 0 /\ b[5] < 128
    THEN ((b[5] * 256 + b[6]) * 256 + b[7]) * 256 + b[8]
    ELSE -1

RECURSIVE FloorLog2(_)
FloorLog2(a) == IF a <= 1 THEN 0 ELSE 1 + FloorLog2(a \div 2)

RECURSIVE MantissaBytes(_, _, _)
MantissaBytes(rem, m, count) ==
    IF count = 0 THEN <<>>
    ELSE <<(rem * 256) \div Pow2(m)>> \o MantissaBytes((rem * 256) % Pow2(m), m, count - 1)

\* struct.pack(">d", num / 2^exp): sign, 11-bit biased exponent, 52-bit mantissa.
PackDouble(num, exp) ==
    IF num = 0 THEN <<0, 0, 0, 0, 0, 0, 0, 0>>
    ELSE LET a    == IF num < 0 THEN -num ELSE num
             m    == FloorLog2(a)
             e    == m - exp + 1023
             r    == a - Pow2(m)
             top4 == (r * 16) \div Pow2(m)
             rem  == (r * 16) % Pow2(m)
         IN <<(IF num < 0 THEN 128 ELSE 0) + (e \div 16), (e % 16) * 16 + top4>>
            \o MantissaBytes(rem, m, 6)

IntArg(n)      == [t |-> "int", n |-> n, e |-> 0, s |-> <<>>]
FloatArg(n, e) == [t |-> "float", n |-> n, e |-> e, s |-> <<>>]
StrArg(s)      == [t |-> "str", n |-> 0, e |-> 0, s |-> s]

EncodeArg(arg) ==
    CASE arg.t = "int"   -> Pack64(arg.n)
      [] arg.t = "float" -> PackDouble(arg.n, arg.e)
      [] arg.t = "str"   -> <<Len(arg.s)>> \o arg.s

RECURSIVE EncodeArgs(_)
EncodeArgs(args) ==
    IF args = <<>> THEN <<>> ELSE EncodeArg(Head(args)) \o EncodeArgs(Tail(args))

(***************************************************************************)
(* CodeGenerator state.  bytecode and function_addresses are the object's  *)
(* fields; err is the exception in flight ("none" when there is none).     *)
(* starts, visits and regions are history the model keeps about the        *)
(* emission: the offsets at which emit appended an opcode byte, the span   *)
(* of bytes each visit_node call produced, and the span of each function.  *)
(***************************************************************************)
NoFunctions == [fn \in {} |-> 0]

NewCodeGenerator ==
    [bytecode |-> <<>>, function_addresses |-> NoFunctions, err |-> "none",
     starts |-> {}, visits |-> {}, regions |-> <<>>]

Raise(st, e) == IF st.err # "none" THEN st ELSE [st EXCEPT !.err = e]

emit(st, opcode, args) ==
    IF st.err # "none" THEN st
    ELSE IF ~HasOpCode(opcode) THEN Raise(st, "AttributeError")
    ELSE [st EXCEPT !.bytecode = @ \o <<OpCode[opcode]>> \o EncodeArgs(args),
                    !.starts = @ \cup {Len(st.bytecode)}]

\* self.bytecode[pos + 1:pos + 9] = struct.pack(">Q", target)
patch(st, pos, target) ==
    IF st.err # "none" THEN st
    ELSE [st EXCEPT !.bytecode =
            [j \in 1..Len(st.bytecode) |->
                IF j >= pos + 2 /\ j <= pos + 9
                THEN Pack64(target)[j - pos - 1]
                ELSE st.bytecode[j]]]

(***************************************************************************)
(* CodeGenerator.visit_node, one operator per isinstance branch.  pos is   *)
(* history only: "stmt" when the node is visited as an element of a body,  *)
(* "expr" when visited as an operand, "root" for generate's own call.      *)
(***************************************************************************)
RECURSIVE visit_node(_, _, _), visit_all(_, _, _),
          generate_functions(_, _), visit_main(_, _), emit_range_values(_, _, _),
          visit_compare_pairs(_, _, _), visit_bool_rest(_, _, _)

visit_all(st, nodes, pos) ==
    IF nodes = <<>> THEN st
    ELSE visit_all(visit_node(st, Head(nodes), pos), Tail(nodes), pos)

\* generate_function with the parameters stored in declaration order.
generate_function_in_declared_order(st, func_def) ==
    IF st.err # "none" THEN st
    ELSE LET func_start == Len(st.bytecode)
             s1 == [st EXCEPT !.function_addresses =
                        (func_def.name :> func_start) @@ st.function_addresses]
             store_params[k \in 0..Len(func_def.params)] ==
                 IF k = 0 THEN s1
                 ELSE emit(store_params[k - 1], "STORE", <<StrArg(func_def.params[k])>>)
             s5 == emit(emit(visit_all(store_params[Len(func_def.params)],
                                       func_def.body, "stmt"),
                             "LOAD_NULL", <<>>), "RET", <<>>)
         IN IF s5.err # "none" THEN s5
            ELSE [s5 EXCEPT !.regions = Append(@,
                    [name |-> func_def.name, params |-> func_def.params,
                     start |-> func_start, end |-> Len(s5.bytecode)])]

generate_function(st, func_def) ==
    IF st.err # "none" THEN st
    ELSE LET func_start == Len(st.bytecode)
             s1 == [st EXCEPT !.function_addresses =
                        (func_def.name :> func_start) @@ st.function_addresses]
             store_params[k \in 0..Len(func_def.params)] ==
                 IF k = 0 THEN s1
                 ELSE emit(store_params[k - 1], "STORE",
                           <<StrArg(func_def.params[Len(func_def.params) - k + 1])>>)
             s2 == store_params[Len(func_def.params)]
             s3 == visit_all(s2, func_def.body, "stmt")
             s4 == emit(s3, "LOAD_NULL", <<>>)
             s5 == emit(s4, "RET", <<>>)
         IN IF s5.err # "none" THEN s5
            ELSE [s5 EXCEPT !.regions = Append(@,
                    [name |-> func_def.name, params |-> func_def.params,
                     start |-> func_start, end |-> Len(s5.bytecode)])]

generate_functions(st, body) ==
    IF body = <<>> THEN st
    ELSE generate_functions(
            IF Head(body).kind = "FunctionDef" THEN generate_function(st, Head(body)) ELSE st,
            Tail(body))

visit_main(st, body) ==
    IF body = <<>> THEN st
    ELSE visit_main(
            IF Head(body).kind # "FunctionDef" THEN visit_node(st, Head(body), "stmt") ELSE st,
            Tail(body))

\* The Module branch with the main statements emitted before the functions
\* (the initial JMP then lands on the first function).
visit_Module_main_first(st, node) ==
    LET main_start_pos == Len(st.bytecode)
        s1 == emit(st, "JMP", <<IntArg(0)>>)
        s2 == visit_main(s1, node.body)
        s3 == patch(s2, main_start_pos, Len(s2.bytecode))
    IN generate_functions(s3, node.body)

visit_Module(st, node) ==
    LET main_start_pos == Len(st.bytecode)
        s1 == emit(st, "JMP", <<IntArg(0)>>)
        s2 == generate_functions(s1, node.body)
        main_start == Len(s2.bytecode)
        s3 == patch(s2, main_start_pos, main_start)
    IN visit_main(s3, node.body)

visit_Assignment(st, node) ==
    emit(visit_node(st, node.value, "expr"), "STORE", <<StrArg(node.target)>>)

visit_Expr(st, node) ==
    LET s1 == visit_node(st, node.value, "expr")
    IN IF node.value.kind # "Call" THEN emit(s1, "POP", <<>>) ELSE s1

\* list(range(start, end)) needs integers: any other constant raises TypeError.
emit_range_values(st, lo, hi) ==
    IF lo >= hi THEN st
    ELSE emit_range_values(emit(st, "LOAD_INT", <<IntArg(lo)>>), lo + 1, hi)

visit_Call(st, node) ==
    CASE node.func = S_print ->
            IF node.args # <<>>
            THEN emit(visit_all(st, node.args, "expr"), "PRINT", <<>>)
            ELSE emit(emit(st, "LOAD_CONST", <<StrArg(<<>>)>>), "PRINT", <<>>)
      [] node.func = S_input -> emit(st, "STDIN", <<>>)
      [] node.func = S_len ->
            IF node.args # <<>>
            THEN emit(visit_node(st, node.args[1], "expr"), "ARRAY_LEN", <<>>)
            ELSE st
      [] node.func = S_int ->
            IF node.args # <<>>
            THEN emit(visit_node(st, node.args[1], "expr"), "CAST_INT", <<>>)
            ELSE st
      [] node.func = S_float ->
            IF node.args # <<>>
            THEN emit(visit_node(st, node.args[1], "expr"), "CAST_FLOAT", <<>>)
            ELSE st
      [] node.func = S_range ->
            IF Len(node.args) >= 2
            THEN LET start_val == node.args[1]
                     end_val   == node.args[2]
                 IN IF start_val.kind = "Constant" /\ end_val.kind = "Constant"
                    THEN IF IsInstanceInt(start_val) /\ IsInstanceInt(end_val)
                         THEN LET n == IF end_val.num > start_val.num
                                       THEN end_val.num - start_val.num ELSE 0
                              IN emit(emit_range_values(st, start_val.num, end_val.num),
                                      "BUILD_LIST", <<IntArg(n)>>)
                         ELSE Raise(st, "TypeError")
                    ELSE st
            ELSE st
      [] OTHER ->
            IF node.func \in DOMAIN st.function_addresses
            THEN LET s1 == visit_all(st, node.args, "expr")
                 IN emit(s1, "CALL", <<IntArg(s1.function_addresses[node.func])>>)
            ELSE st

visit_Name(st, node) == emit(st, "LOAD_VAR", <<StrArg(node.id)>>)

visit_Constant(st, node) ==
    IF IsInstanceStr(node) THEN emit(st, "LOAD_CONST", <<StrArg(node.str)>>)
    ELSE IF IsInstanceInt(node) THEN emit(st, "LOAD_INT", <<IntArg(node.num)>>)
    ELSE IF IsInstanceFloat(node) THEN emit(st, "LOAD_FLOAT", <<FloatArg(node.num, node.exp)>>)
    ELSE IF IsInstanceBool(node)
         THEN emit(st, "LOAD_BOOL", <<IntArg(IF node.num # 0 THEN 1 ELSE 0)>>)
    ELSE IF node.ty = "null" THEN emit(st, "LOAD_NULL", <<>>)
    ELSE st

visit_BinaryOp(st, node) ==
    emit(visit_node(visit_node(st, node.left, "expr"), node.right, "expr"), node.op, <<>>)

\* zip(node.ops, node.comparators) stops at the shorter list.
visit_compare_pairs(st, ops, comparators) ==
    IF ops = <<>> \/ comparators = <<>> THEN st
    ELSE visit_compare_pairs(
            emit(visit_node(st, Head(comparators), "expr"), Head(ops), <<>>),
            Tail(ops), Tail(comparators))

visit_Compare(st, node) ==
    visit_compare_pairs(visit_node(st, node.left, "expr"), node.ops, node.comparators)

visit_bool_rest(st, values, opcode) ==
    IF values = <<>> THEN st
    ELSE visit_bool_rest(emit(visit_node(st, Head(values), "expr"), opcode, <<>>),
                         Tail(values), opcode)

visit_BoolOp(st, node) ==
    IF node.op \in {"AND", "OR"}
    THEN IF node.values = <<>> THEN Raise(st, "IndexError")
         ELSE visit_bool_rest(visit_node(st, node.values[1], "expr"),
                              Tail(node.values), node.op)
    ELSE st

visit_UnaryOp(st, node) ==
    LET s1 == visit_node(st, node.operand, "expr")
    IN CASE node.op = "NOT" -> emit(s1, "NOT", <<>>)
         [] node.op = "NEG" -> emit(emit(s1, "LOAD_INT", <<IntArg(-1)>>), "MUL", <<>>)
         [] OTHER -> s1

visit_If(st, node) ==
    LET s1 == visit_node(st, node.test, "expr")
        jmp_pos == Len(s1.bytecode)
        s2 == emit(s1, "JMP_IF_FALSE", <<IntArg(0)>>)
        s3 == visit_all(s2, node.body, "stmt")
    IN IF node.orelse # <<>>
       THEN LET else_jmp_pos == Len(s3.bytecode)
                s4 == emit(s3, "JMP", <<IntArg(0)>>)
                if_end == Len(s4.bytecode)
                s5 == patch(s4, jmp_pos, if_end)
                s6 == visit_all(s5, node.orelse, "stmt")
                final_end == Len(s6.bytecode)
            IN patch(s6, else_jmp_pos, final_end)
       ELSE patch(s3, jmp_pos, Len(s3.bytecode))

\* A For whose exit test is "counter > end" instead of "counter >= end".
visit_For_testing_GT(st, node) ==
    IF node.iter.kind = "Call" /\ node.iter.func = S_range
    THEN IF node.target_node.kind = "Name" /\ node.target_node.id # <<>>
            /\ Len(node.iter.args) >= 2
         THEN LET internal_counter == <<95, 95>> \o node.target_node.id \o S_counter
                  s1 == emit(visit_node(st, node.iter.args[1], "expr"),
                             "STORE", <<StrArg(internal_counter)>>)
                  s2 == emit(s1, "LOAD_VAR", <<StrArg(internal_counter)>>)
                  s3 == emit(visit_node(s2, node.iter.args[2], "expr"), "GT", <<>>)
                  s4 == emit(s3, "JMP_IF_TRUE", <<IntArg(0)>>)
                  s5 == emit(emit(s4, "LOAD_VAR", <<StrArg(internal_counter)>>),
                             "STORE", <<StrArg(node.target_node.id)>>)
                  s6 == visit_all(s5, node.body, "stmt")
                  s9 == emit(emit(emit(s6, "LOAD_VAR", <<StrArg(internal_counter)>>),
                                  "LOAD_INT", <<IntArg(1)>>), "ADD", <<>>)
                  s11 == emit(emit(s9, "STORE", <<StrArg(internal_counter)>>),
                              "JMP", <<IntArg(Len(s1.bytecode))>>)
              IN patch(s11, Len(s3.bytecode), Len(s11.bytecode))
         ELSE st
    ELSE st

visit_For(st, node) ==
    IF node.iter.kind = "Call" /\ node.iter.func = S_range
    THEN IF node.target_node.kind = "Name" /\ node.target_node.id # <<>>
            /\ Len(node.iter.args) >= 2
         THEN LET target_var == node.target_node.id
                  start_node == node.iter.args[1]
                  end_node   == node.iter.args[2]
                  internal_counter == <<95, 95>> \o target_var \o S_counter
                  s1 == emit(visit_node(st, start_node, "expr"),
                             "STORE", <<StrArg(internal_counter)>>)
                  loop_start == Len(s1.bytecode)
                  s2 == emit(s1, "LOAD_VAR", <<StrArg(internal_counter)>>)
                  s3 == emit(visit_node(s2, end_node, "expr"), "GE", <<>>)
                  jmp_pos == Len(s3.bytecode)
                  s4 == emit(s3, "JMP_IF_TRUE", <<IntArg(0)>>)
                  s5 == emit(emit(s4, "LOAD_VAR", <<StrArg(internal_counter)>>),
                             "STORE", <<StrArg(target_var)>>)
                  s6 == visit_all(s5, node.body, "stmt")
                  s7 == emit(s6, "LOAD_VAR", <<StrArg(internal_counter)>>)
                  s8 == emit(s7, "LOAD_INT", <<IntArg(1)>>)
                  s9 == emit(s8, "ADD", <<>>)
                  s10 == emit(s9, "STORE", <<StrArg(internal_counter)>>)
                  s11 == emit(s10, "JMP", <<IntArg(loop_start)>>)
              IN patch(s11, jmp_pos, Len(s11.bytecode))
         ELSE st
    ELSE st

visit_While(st, node) ==
    LET loop_start == Len(st.bytecode)
        s1 == visit_node(st, node.test, "expr")
        jmp_pos == Len(s1.bytecode)
        s2 == emit(s1, "JMP_IF_FALSE", <<IntArg(0)>>)
        s3 == visit_all(s2, node.body, "stmt")
        s4 == emit(s3, "JMP", <<IntArg(loop_start)>>)
    IN patch(s4, jmp_pos, Len(s4.bytecode))

visit_ListNode(st, node) ==
    emit(visit_all(st, node.elts, "expr"), "BUILD_LIST", <<IntArg(Len(node.elts))>>)

\* "if node.value": a node is truthy, None is not.
visit_Return(st, node) ==
    LET s1 == IF node.value # NoneNode THEN visit_node(st, node.value, "expr")
              ELSE emit(st, "LOAD_NULL", <<>>)
    IN emit(s1, "RET", <<>>)

visit_dispatch(st, node) ==
    CASE node.kind = "Module"     -> visit_Module(st, node)
      [] node.kind = "Assignment" -> visit_Assignment(st, node)
      [] node.kind = "Expr"       -> visit_Expr(st, node)
      [] node.kind = "Call"       -> visit_Call(st, node)
      [] node.kind = "Name"       -> visit_Name(st, node)
      [] node.kind = "Constant"   -> visit_Constant(st, node)
      [] node.kind = "BinaryOp"   -> visit_BinaryOp(st, node)
      [] node.kind = "Compare"    -> visit_Compare(st, node)
      [] node.kind = "BoolOp"     -> visit_BoolOp(st, node)
      [] node.kind = "UnaryOp"    -> visit_UnaryOp(st, node)
      [] node.kind = "If"         -> visit_If(st, node)
      [] node.kind = "For"        -> visit_For(st, node)
      [] node.kind = "While"      -> visit_While(st, node)
      [] node.kind = "ListNode"   -> visit_ListNode(st, node)
      [] node.kind = "Return"     -> visit_Return(st, node)
      [] OTHER                    -> st

\* The span of bytes one visit_node call produced (history only).
log_visit(st, s1, node, pos) ==
    IF s1.err # "none" THEN s1
    ELSE [s1 EXCEPT !.visits = @ \cup
            {[node |-> node, pos |-> pos,
              start |-> Len(st.bytecode), end |-> Len(s1.bytecode)]}]

visit_node(st, node, pos) ==
    IF st.err # "none" THEN st
    ELSE log_visit(st, visit_dispatch(st, node), node, pos)

\* CodeGenerator.generate: the state after the call and what it returns.
\* bytes(self.bytecode) raises ValueError on an element outside 0..255.
NoBytes == <<-1>>

to_bytes(s1) ==
    IF s1.err = "none" /\ \E j \in 1..Len(s1.bytecode) : s1.bytecode[j] \notin 0..255
    THEN Raise(s1, "ValueError")
    ELSE s1

generate_state(st, ast_node) == to_bytes(visit_node(st, ast_node, "root"))

returned(s1) == IF s1.err = "none" THEN s1.bytecode ELSE NoBytes

generate_result(st, ast_node) == returned(generate_state(st, ast_node))

(***************************************************************************)
(* Host (Python) values of constants, as Optimizer.constant_fold uses      *)
(* them.  A number is num / 2^exp, kept normalised (exp = 0 or num odd),   *)
(* which is exact for the doubles the model meets.  Unsupported marks a    *)
(* host result outside this domain (a quotient that is not dyadic, a       *)
(* negative float zero, a format string): evaluating it stops the check.   *)
(***************************************************************************)
Unsupported == CHOOSE v \in {} : TRUE

IsNum(c) == c.ty \in {"int", "bool", "float"}

IsFloat(c) == c.ty = "float"

\* bool(value)
Truthy(c) ==
    CASE c.ty = "str"  -> c.str # <<>>
      [] c.ty = "null" -> FALSE
      [] OTHER         -> c.num # 0

Max2(a, b) == IF a >= b THEN a ELSE b

Abs(n) == IF n < 0 THEN -n ELSE n

RECURSIVE Norm(_, _, _)
Norm(ty, n, e) ==
    IF e > 0 /\ n % 2 = 0 THEN Norm(ty, n \div 2, e - 1) ELSE Constant(ty, n, e, <<>>)

\* The numerators of two numbers over their common denominator 2^E.
AlignedL(l, r) == l.num * Pow2(Max2(l.exp, r.exp) - l.exp)
AlignedR(l, r) == r.num * Pow2(Max2(l.exp, r.exp) - r.exp)

ArithTy(l, r) == IF IsFloat(l) \/ IsFloat(r) THEN "float" ELSE "int"

RECURSIVE OddPart(_)
OddPart(n) == IF n % 2 = 0 /\ n # 0 THEN OddPart(n \div 2) ELSE n

RECURSIVE TwoPart(_)
TwoPart(n) == IF n % 2 = 0 /\ n # 0 THEN 1 + TwoPart(n \div 2) ELSE 0

\* a % b with the sign of the divisor, b # 0.
PyMod(a, b) == IF b > 0 THEN a % b ELSE -((-a) % (-b))

RECURSIVE Repeat(_, _)
Repeat(s, n) == IF n <= 0 THEN <<>> ELSE s \o Repeat(s, n - 1)

RECURSIVE LexLess(_, _)
LexLess(s, u) ==
    IF u = <<>> THEN FALSE
    ELSE IF s = <<>> THEN TRUE
    ELSE IF Head(s) # Head(u) THEN Head(s) < Head(u)
    ELSE LexLess(Tail(s), Tail(u))

\* left.value == right.value
PyEq(l, r) ==
    IF IsNum(l) /\ IsNum(r) THEN AlignedL(l, r) = AlignedR(l, r)
    ELSE IF l.ty = "str" /\ r.ty = "str" THEN l.str = r.str
    ELSE l.ty = "null" /\ r.ty = "null"

\* left.value < right.value is defined (does not raise TypeError).
PyOrdered(l, r) == (IsNum(l) /\ IsNum(r)) \/ (l.ty = "str" /\ r.ty = "str")

PyLt(l, r) ==
    IF IsNum(l) THEN AlignedL(l, r) < AlignedR(l, r) ELSE LexLess(l.str, r.str)

\* The result of a fold that raised, or that no branch of the fold produced.
NoFold == NoneNode

FoldADD(l, r) ==
    IF IsNum(l) /\ IsNum(r)
    THEN Norm(ArithTy(l, r), AlignedL(l, r) + AlignedR(l, r), Max2(l.exp, r.exp))
    ELSE IF l.ty = "str" /\ r.ty = "str" THEN StrC(l.str \o r.str)
    ELSE NoFold

\* A subtraction that folds operands the host cannot subtract to 0.
FoldSUB_text_as_zero(l, r) ==
    IF IsNum(l) /\ IsNum(r)
    THEN Norm(ArithTy(l, r), AlignedL(l, r) - AlignedR(l, r), Max2(l.exp, r.exp))
    ELSE IntC(0)

FoldSUB(l, r) ==
    IF IsNum(l) /\ IsNum(r)
    THEN Norm(ArithTy(l, r), AlignedL(l, r) - AlignedR(l, r), Max2(l.exp, r.exp))
    ELSE NoFold

FoldMUL(l, r) ==
    IF IsNum(l) /\ IsNum(r)
    THEN IF ArithTy(l, r) = "float" /\ l.num * r.num = 0 /\ (l.num < 0 \/ r.num < 0)
         THEN Unsupported
         ELSE Norm(ArithTy(l, r), l.num * r.num, l.exp + r.exp)
    ELSE IF l.ty = "str" /\ IsInstanceInt(r) THEN StrC(Repeat(l.str, r.num))
    ELSE IF IsInstanceInt(l) /\ r.ty = "str" THEN StrC(Repeat(r.str, l.num))
    ELSE NoFold

\* right.value != 0
NotZero(r) == ~(IsNum(r) /\ r.num = 0)

FoldDIV(l, r) ==
    IF ~NotZero(r) THEN NoFold
    ELSE IF IsNum(l) /\ IsNum(r)
    THEN LET a == AlignedL(l, r)
             b == AlignedR(l, r)
             odd == Abs(OddPart(b))
             sgn == IF b < 0 THEN -1 ELSE 1
         IN IF a % odd # 0 \/ (a = 0 /\ b < 0) THEN Unsupported
            ELSE Norm("float", sgn * (a \div odd), TwoPart(b))
    ELSE NoFold

FoldMOD(l, r) ==
    IF ~NotZero(r) THEN NoFold
    ELSE IF IsNum(l) /\ IsNum(r)
    THEN LET m == PyMod(AlignedL(l, r), AlignedR(l, r))
         IN IF ArithTy(l, r) = "float" /\ m = 0 /\ r.num < 0 THEN Unsupported
            ELSE Norm(ArithTy(l, r), m, Max2(l.exp, r.exp))
    ELSE IF l.ty = "str" /\ \E j \in 1..Len(l.str) : l.str[j] = 37 THEN Unsupported
    ELSE NoFold

fold_binary(op, l, r) ==
    CASE op = "ADD" -> FoldADD(l, r)
      [] op = "SUB" -> FoldSUB(l, r)
      [] op = "MUL" -> FoldMUL(l, r)
      [] op = "DIV" -> FoldDIV(l, r)
      [] op = "MOD" -> FoldMOD(l, r)
      [] OTHER      -> NoFold

fold_unary(op, v) ==
    CASE op = "NOT" -> BoolC(~Truthy(v))
      [] op = "NEG" ->
            IF IsNum(v)
            THEN IF IsFloat(v) /\ v.num = 0 THEN Unsupported
                 ELSE Constant(IF IsFloat(v) THEN "float" ELSE "int", -v.num, v.exp, <<>>)
            ELSE NoFold
      [] OTHER -> NoFold

fold_compare(op, l, r) ==
    CASE op = "EQ" -> BoolC(PyEq(l, r))
      [] op = "NE" -> BoolC(~PyEq(l, r))
      [] op = "LT" -> IF PyOrdered(l, r) THEN BoolC(PyLt(l, r)) ELSE NoFold
      [] op = "LE" -> IF PyOrdered(l, r) THEN BoolC(~PyLt(r, l)) ELSE NoFold
      [] op = "GT" -> IF PyOrdered(l, r) THEN BoolC(PyLt(r, l)) ELSE NoFold
      [] op = "GE" -> IF PyOrdered(l, r) THEN BoolC(~PyLt(l, r)) ELSE NoFold
      [] OTHER     -> NoFold

\* min(...) / max(...) over constants: the first extremal element, or NoFold
\* when a comparison raises.
RECURSIVE fold_extremum(_, _, _)
fold_extremum(best, rest, wantMax) ==
    IF rest = <<>> THEN best
    ELSE IF ~PyOrdered(Head(rest), best) THEN NoFold
    ELSE IF wantMax
         THEN fold_extremum(IF PyLt(best, Head(rest)) THEN Head(rest) ELSE best,
                            Tail(rest), wantMax)
         ELSE fold_extremum(IF PyLt(Head(rest), best) THEN Head(rest) ELSE best,
                            Tail(rest), wantMax)

fold_builtin(func, args) ==
    IF func = S_len /\ Len(args) = 1
    THEN IF args[1].ty = "str" THEN IntC(Len(args[1].str)) ELSE NoFold
    ELSE IF func = S_abs /\ Len(args) = 1
    THEN IF IsNum(args[1])
         THEN Constant(IF IsFloat(args[1]) THEN "float" ELSE "int",
                       Abs(args[1].num), args[1].exp, <<>>)
         ELSE NoFold
    ELSE IF func = S_min /\ Len(args) >= 1 THEN fold_extremum(args[1], Tail(args), FALSE)
    ELSE IF func = S_max /\ Len(args) >= 1 THEN fold_extremum(args[1], Tail(args), TRUE)
    ELSE NoFold

(***************************************************************************)
(* Optimizer.constant_fold                                                 *)
(***************************************************************************)
RECURSIVE constant_fold(_), fold_all(_)

fold_all(nodes) ==
    IF nodes = <<>> THEN <<>> ELSE <<constant_fold(Head(nodes))>> \o fold_all(Tail(nodes))

AllConstant(nodes) == \A j \in 1..Len(nodes) : nodes[j].kind = "Constant"

fold_BinaryOp(node) ==
    LET left  == constant_fold(node.left)
        right == constant_fold(node.right)
        folded == IF left.kind = "Constant" /\ right.kind = "Constant"
                  THEN fold_binary(node.op, left, right) ELSE NoFold
    IN IF folded # NoFold THEN folded ELSE BinaryOp(left, node.op, right)

\* A fold that looks at the operand as given and folds it only afterwards.
fold_UnaryOp_operand_as_given(node) ==
    LET folded == IF node.operand.kind = "Constant"
                  THEN fold_unary(node.op, node.operand) ELSE NoFold
    IN IF folded # NoFold THEN folded ELSE UnaryOp(node.op, constant_fold(node.operand))

fold_UnaryOp(node) ==
    LET operand == constant_fold(node.operand)
        folded == IF operand.kind = "Constant" THEN fold_unary(node.op, operand) ELSE NoFold
    IN IF folded # NoFold THEN folded ELSE UnaryOp(node.op, operand)

fold_Compare(node) ==
    LET left == constant_fold(node.left)
        comparators == fold_all(node.comparators)
        folded == IF left.kind = "Constant" /\ AllConstant(comparators)
                     /\ Len(node.ops) = 1 /\ Len(comparators) = 1
                  THEN fold_compare(node.ops[1], left, comparators[1]) ELSE NoFold
    IN IF folded # NoFold THEN folded ELSE Compare(left, node.ops, comparators)

fold_If(node) ==
    LET test == constant_fold(node.test)
    IN IF test.kind = "Constant"
       THEN IF Truthy(test) THEN Module(fold_all(node.body))
            ELSE Module(fold_all(node.orelse))
       ELSE If(test, fold_all(node.body), fold_all(node.orelse))

fold_While(node) ==
    LET test == constant_fold(node.test)
    IN IF test.kind = "Constant" /\ ~Truthy(test) THEN NullC
       ELSE While(test, fold_all(node.body))

fold_Call(node) ==
    LET folded_args == fold_all(node.args)
        folded == IF node.func \in {S_len, S_abs, S_min, S_max} /\ AllConstant(folded_args)
                  THEN fold_builtin(node.func, folded_args) ELSE NoFold
    IN IF folded # NoFold THEN folded ELSE Call(node.func, folded_args)

constant_fold(node) ==
    CASE node.kind = "BinaryOp"    -> fold_BinaryOp(node)
      [] node.kind = "UnaryOp"     -> fold_UnaryOp(node)
      [] node.kind = "Compare"     -> fold_Compare(node)
      [] node.kind = "Module"      -> Module(fold_all(node.body))
      [] node.kind = "Assignment"  -> Assignment(node.target, constant_fold(node.value))
      [] node.kind = "Expr"        -> Expr(constant_fold(node.value))
      [] node.kind = "If"          -> fold_If(node)
      [] node.kind = "For"         ->
            For(node.target_node, constant_fold(node.iter), fold_all(node.body))
      [] node.kind = "While"       -> fold_While(node)
      [] node.kind = "Call"        -> fold_Call(node)
      [] node.kind = "FunctionDef" ->
            FunctionDef(node.name, node.params, fold_all(node.body))
      [] node.kind = "Return"      ->
            IF node.value # NoneNode THEN Return(constant_fold(node.value)) ELSE node
      [] OTHER                     -> node

(***************************************************************************)
(* Text: str() and repr() of host values and of dataclass nodes, as byte   *)
(* sequences (Optimizer._hash_expr builds its fingerprints from them).     *)
(***************************************************************************)
Lit ==
    [ADD |-> <<65, 68, 68>>, SUB |-> <<83, 85, 66>>, MUL |-> <<77, 85, 76>>,
     DIV |-> <<68, 73, 86>>, MOD |-> <<77, 79, 68>>, EQ |-> <<69, 81>>,
     NE |-> <<78, 69>>, LT |-> <<76, 84>>, LE |-> <<76, 69>>, GT |-> <<71, 84>>,
     GE |-> <<71, 69>>, AND |-> <<65, 78, 68>>, OR |-> <<79, 82>>,
     NOT |-> <<78, 79, 84>>, NEG |-> <<78, 69, 71>>,
     UNKNOWN |-> <<85, 78, 75, 78, 79, 87, 78>>,
     Module |-> <<77, 111, 100, 117, 108, 101>>,
     Assignment |-> <<65, 115, 115, 105, 103, 110, 109, 101, 110, 116>>,
     BinaryOp |-> <<66, 105, 110, 97, 114, 121, 79, 112>>,
     UnaryOp |-> <<85, 110, 97, 114, 121, 79, 112>>,
     Compare |-> <<67, 111, 109, 112, 97, 114, 101>>,
     BoolOp |-> <<66, 111, 111, 108, 79, 112>>, Call |-> <<67, 97, 108, 108>>,
     Name |-> <<78, 97, 109, 101>>,
     Constant |-> <<67, 111, 110, 115, 116, 97, 110, 116>>, If |-> <<73, 102>>,
     For |-> <<70, 111, 114>>, While |-> <<87, 104, 105, 108, 101>>,
     ListNode |-> <<76, 105, 115, 116, 78, 111, 100, 101>>,
     Expr |-> <<69, 120, 112, 114>>,
     FunctionDef |-> <<70, 117, 110, 99, 116, 105, 111, 110, 68, 101, 102>>,
     body |-> <<98, 111, 100, 121>>, target |-> <<116, 97, 114, 103, 101, 116>>,
     value |-> <<118, 97, 108, 117, 101>>, left |-> <<108, 101, 102, 116>>,
     op |-> <<111, 112>>, right |-> <<114, 105, 103, 104, 116>>,
     operand |-> <<111, 112, 101, 114, 97, 110, 100>>, ops |-> <<111, 112, 115>>,
     comparators |-> <<99, 111, 109, 112, 97, 114, 97, 116, 111, 114, 115>>,
     values |-> <<118, 97, 108, 117, 101, 115>>, func |-> <<102, 117, 110, 99>>,
     args |-> <<97, 114, 103, 115>>, id |-> <<105, 100>>,
     test |-> <<116, 101, 115, 116>>, orelse |-> <<111, 114, 101, 108, 115, 101>>,
     iter |-> <<105, 116, 101, 114>>, elts |-> <<101, 108, 116, 115>>,
     name |-> <<110, 97, 109, 101>>, True |-> <<84, 114, 117, 101>>,
     False |-> <<70, 97, 108, 115, 101>>, None |-> <<78, 111, 110, 101>>]

\* The text of an operator tag.
TagText(tag) == IF tag \in DOMAIN Lit THEN Lit[tag] ELSE Unsupported

RECURSIVE Digits(_)
Digits(n) == IF n < 10 THEN <<48 + n>> ELSE Digits(n \div 10) \o <<48 + (n % 10)>>

IntStr(n) == IF n < 0 THEN <<45>> \o Digits(-n) ELSE Digits(n)

RECURSIVE FractionDigits(_, _)
FractionDigits(rem, den) ==
    IF rem = 0 THEN <<>>
    ELSE <<48 + ((rem * 10) \div den)>> \o FractionDigits((rem * 10) % den, den)

\* repr(float) of num / 2^exp, in the range where Python prints positional notation.
FloatStr(num, exp) ==
    LET a   == Abs(num)
        den == Pow2(exp)
        frac == FractionDigits(a % den, den)
    IN IF a # 0 /\ a * 10000 < den THEN Unsupported
       ELSE (IF num < 0 THEN <<45>> ELSE <<>>) \o Digits(a \div den) \o <<46>>
            \o (IF frac = <<>> THEN <<48>> ELSE frac)

\* str(node.value) of a Constant
ValueStr(c) ==
    CASE c.ty = "str"   -> c.str
      [] c.ty = "int"   -> IntStr(c.num)
      [] c.ty = "bool"  -> IF c.num # 0 THEN Lit.True ELSE Lit.False
      [] c.ty = "float" -> FloatStr(c.num, c.exp)
      [] c.ty = "null"  -> Lit.None

\* repr(str): quoted; strings needing escapes or double quotes are outside the model.
StrRepr(s) ==
    IF \E j \in 1..Len(s) : s[j] = 39 \/ s[j] = 92 \/ s[j] < 32 \/ s[j] > 126
    THEN Unsupported
    ELSE <<39>> \o s \o <<39>>

ValueRepr(c) == IF c.ty = "str" THEN StrRepr(c.str) ELSE ValueStr(c)

RECURSIVE Join(_, _)
Join(parts, sep) ==
    IF parts = <<>> THEN <<>>
    ELSE IF Len(parts) = 1 THEN parts[1]
    ELSE parts[1] \o sep \o Join(Tail(parts), sep)

\* "name=value"
FieldRepr(name, text) == name \o <<61>> \o text

\* "Class(field=..., field=...)"
ObjRepr(cls, fields) == cls \o <<40>> \o Join(fields, <<44, 32>>) \o <<41>>

ListRepr(items) == <<91>> \o Join(items, <<44, 32>>) \o <<93>>

RECURSIVE NodeRepr(_), NodeReprs(_), TagReprs(_), StrReprs(_)

NodeReprs(nodes) ==
    IF nodes = <<>> THEN <<>> ELSE <<NodeRepr(Head(nodes))>> \o NodeReprs(Tail(nodes))

TagReprs(tags) ==
    IF tags = <<>> THEN <<>> ELSE <<StrRepr(TagText(Head(tags)))>> \o TagReprs(Tail(tags))

StrReprs(strs) ==
    IF strs = <<>> THEN <<>> ELSE <<StrRepr(Head(strs))>> \o StrReprs(Tail(strs))

\* repr(node) of a dataclass instance (None prints "None").
NodeRepr(node) ==
    CASE node.kind = "None" -> Lit.None
      [] node.kind = "Module" ->
            ObjRepr(Lit.Module, <<FieldRepr(Lit.body, ListRepr(NodeReprs(node.body)))>>)
      [] node.kind = "Assignment" ->
            ObjRepr(Lit.Assignment, <<FieldRepr(Lit.target, StrRepr(node.target)),
                                      FieldRepr(Lit.value, NodeRepr(node.value))>>)
      [] node.kind = "BinaryOp" ->
            ObjRepr(Lit.BinaryOp, <<FieldRepr(Lit.left, NodeRepr(node.left)),
                                    FieldRepr(Lit.op, StrRepr(TagText(node.op))),
                                    FieldRepr(Lit.right, NodeRepr(node.right))>>)
      [] node.kind = "UnaryOp" ->
            ObjRepr(Lit.UnaryOp, <<FieldRepr(Lit.op, StrRepr(TagText(node.op))),
                                   FieldRepr(Lit.operand, NodeRepr(node.operand))>>)
      [] node.kind = "Compare" ->
            ObjRepr(Lit.Compare, <<FieldRepr(Lit.left, NodeRepr(node.left)),
                                   FieldRepr(Lit.ops, ListRepr(TagReprs(node.ops))),
                                   FieldRepr(Lit.comparators,
                                             ListRepr(NodeReprs(node.comparators)))>>)
      [] node.kind = "BoolOp" ->
            ObjRepr(Lit.BoolOp, <<FieldRepr(Lit.op, StrRepr(TagText(node.op))),
                                  FieldRepr(Lit.values, ListRepr(NodeReprs(node.values)))>>)
      [] node.kind = "Call" ->
            ObjRepr(Lit.Call, <<FieldRepr(Lit.func, StrRepr(node.func)),
                                FieldRepr(Lit.args, ListRepr(NodeReprs(node.args)))>>)
      [] node.kind = "Name" -> ObjRepr(Lit.Name, <<FieldRepr(Lit.id, StrRepr(node.id))>>)
      [] node.kind = "Constant" ->
            ObjRepr(Lit.Constant, <<FieldRepr(Lit.value, ValueRepr(node))>>)
      [] node.kind = "If" ->
            ObjRepr(Lit.If, <<FieldRepr(Lit.test, NodeRepr(node.test)),
                              FieldRepr(Lit.body, ListRepr(NodeReprs(node.body))),
                              FieldRepr(Lit.orelse, ListRepr(NodeReprs(node.orelse)))>>)
      [] node.kind = "For" ->
            ObjRepr(Lit.For, <<FieldRepr(Lit.target, NodeRepr(node.target_node)),
                               FieldRepr(Lit.iter, NodeRepr(node.iter)),
                               FieldRepr(Lit.body, ListRepr(NodeReprs(node.body)))>>)
      [] node.kind = "While" ->
            ObjRepr(Lit.While, <<FieldRepr(Lit.test, NodeRepr(node.test)),
                                 FieldRepr(Lit.body, ListRepr(NodeReprs(node.body)))>>)
      [] node.kind = "ListNode" ->
            ObjRepr(Lit.ListNode, <<FieldRepr(Lit.elts, ListRepr(NodeReprs(node.elts)))>>)
      [] node.kind = "Expr" ->
            ObjRepr(Lit.Expr, <<FieldRepr(Lit.value, NodeRepr(node.value))>>)
      [] node.kind = "FunctionDef" ->
            ObjRepr(Lit.FunctionDef, <<FieldRepr(Lit.name, StrRepr(node.name)),
                                       FieldRepr(Lit.args, ListRepr(StrReprs(node.params))),
                                       FieldRepr(Lit.body, ListRepr(NodeReprs(node.body)))>>)
      [] OTHER -> Unsupported

(***************************************************************************)
(* Optimizer._hash_expr and Optimizer.eliminate_common_subexpressions      *)
(***************************************************************************)
RECURSIVE hash_expr(_), hash_exprs(_)

hash_exprs(nodes) ==
    IF nodes = <<>> THEN <<>> ELSE <<hash_expr(Head(nodes))>> \o hash_exprs(Tail(nodes))

hash_expr(node) ==
    CASE node.kind = "BinaryOp" ->
            <<40>> \o hash_expr(node.left) \o TagText(node.op) \o hash_expr(node.right) \o <<41>>
      [] node.kind = "Call" ->
            node.func \o <<40>> \o Join(hash_exprs(node.args), <<44>>) \o <<41>>
      [] node.kind = "Name" -> node.id
      [] node.kind = "Constant" -> ValueStr(node)
      [] OTHER -> NodeRepr(node)

RECURSIVE eliminate_common_subexpressions(_), cse_all(_), cse_body(_, _)

cse_all(nodes) ==
    IF nodes = <<>> THEN <<>>
    ELSE <<eliminate_common_subexpressions(Head(nodes))>> \o cse_all(Tail(nodes))

\* A pass that walks the body and reuses nothing.
cse_body_without_reuse(body, expr_map) == cse_all(body)

\* The loop over a Module body; expr_map maps a fingerprint to the first target.
cse_body(body, expr_map) ==
    IF body = <<>> THEN <<>>
    ELSE LET stmt == Head(body)
         IN IF stmt.kind = "Assignment" /\ stmt.value.kind # "Constant"
                /\ stmt.value.kind # "Name"
            THEN LET expr_hash == hash_expr(stmt.value)
                 IN IF expr_hash \in DOMAIN expr_map
                    THEN <<Assignment(stmt.target, Name(expr_map[expr_hash]))>>
                         \o cse_body(Tail(body), expr_map)
                    ELSE <<eliminate_common_subexpressions(stmt)>>
                         \o cse_body(Tail(body), (expr_hash :> stmt.target) @@ expr_map)
            ELSE <<eliminate_common_subexpressions(stmt)>> \o cse_body(Tail(body), expr_map)

eliminate_common_subexpressions(node) ==
    CASE node.kind = "Module" -> Module(cse_body(node.body, [h \in {} |-> <<>>]))
      [] node.kind = "FunctionDef" -> FunctionDef(node.name, node.params, cse_all(node.body))
      [] node.kind = "If" ->
            If(eliminate_common_subexpressions(node.test), cse_all(node.body),
               cse_all(node.orelse))
      [] node.kind = "For" ->
            For(node.target_node, eliminate_common_subexpressions(node.iter),
                cse_all(node.body))
      [] node.kind = "While" ->
            While(eliminate_common_subexpressions(node.test), cse_all(node.body))
      [] node.kind = "BinaryOp" ->
            BinaryOp(eliminate_common_subexpressions(node.left), node.op,
                     eliminate_common_subexpressions(node.right))
      [] node.kind = "Call" -> Call(node.func, cse_all(node.args))
      [] node.kind = "Assignment" ->
            Assignment(node.target, eliminate_common_subexpressions(node.value))
      [] node.kind = "Return" ->
            IF node.value # NoneNode
            THEN Return(eliminate_common_subexpressions(node.value)) ELSE node
      [] OTHER -> node

(***************************************************************************)
(* Optimizer state and the function analysis                               *)
(***************************************************************************)
NewOptimizer == [function_defs |-> [fn \in {} |-> NoneNode], recursive_functions |-> {}]

RECURSIVE collect_functions(_, _), collect_body(_, _, _)

\* The loop over a body; register is TRUE in a Module, whose loop records the
\* FunctionDefs it meets before descending into them.
collect_body(defs, body, register) ==
    IF body = <<>> THEN defs
    ELSE LET stmt == Head(body)
             d1 == IF register /\ stmt.kind = "FunctionDef"
                   THEN (stmt.name :> stmt) @@ defs ELSE defs
         IN collect_body(collect_functions(d1, stmt), Tail(body), register)

collect_functions(defs, node) ==
    CASE node.kind = "Module"      -> collect_body(defs, node.body, TRUE)
      [] node.kind = "FunctionDef" -> collect_body(defs, node.body, FALSE)
      [] node.kind = "If" ->
            collect_body(collect_body(defs, node.body, FALSE), node.orelse, FALSE)
      [] node.kind \in {"For", "While"} -> collect_body(defs, node.body, FALSE)
      [] OTHER -> defs

RECURSIVE find_recursive_calls(_, _, _), find_recursive_body(_, _, _),
          detect_recursive_functions(_, _), detect_recursive_body(_, _)

find_recursive_body(found, body, current_func) ==
    IF body = <<>> THEN found
    ELSE find_recursive_body(find_recursive_calls(found, Head(body), current_func),
                             Tail(body), current_func)

find_recursive_calls(found, node, current_func) ==
    IF node.kind = "Call" /\ node.func = current_func THEN found \cup {current_func}
    ELSE IF node.kind = "If"
    THEN find_recursive_body(find_recursive_body(found, node.body, current_func),
                             node.orelse, current_func)
    ELSE IF node.kind \in {"For", "While"}
    THEN find_recursive_body(found, node.body, current_func)
    ELSE IF node.kind = "Return" /\ node.value # NoneNode
    THEN find_recursive_calls(found, node.value, current_func)
    ELSE IF node.kind = "BinaryOp"
    THEN find_recursive_calls(find_recursive_calls(found, node.left, current_func),
                              node.right, current_func)
    ELSE found

detect_recursive_body(found, body) ==
    IF body = <<>> THEN found
    ELSE detect_recursive_body(detect_recursive_functions(found, Head(body)), Tail(body))

\* The FunctionDef itself is handed to _find_recursive_calls.
detect_recursive_functions(found, node) ==
    CASE node.kind = "Module"      -> detect_recursive_body(found, node.body)
      [] node.kind = "FunctionDef" -> find_recursive_calls(found, node, node.name)
      [] OTHER -> found

(***************************************************************************)
(* Optimizer.inline_functions and Optimizer._replace_var_refs              *)
(***************************************************************************)
RECURSIVE replace_var_refs(_, _, _), replace_all_refs(_, _, _)

replace_all_refs(nodes, var_name, replacement) ==
    IF nodes = <<>> THEN <<>>
    ELSE <<replace_var_refs(Head(nodes), var_name, replacement)>>
         \o replace_all_refs(Tail(nodes), var_name, replacement)

replace_var_refs(node, var_name, replacement) ==
    IF node.kind = "Name" /\ node.id = var_name THEN replacement
    ELSE IF node.kind = "BinaryOp"
    THEN BinaryOp(replace_var_refs(node.left, var_name, replacement), node.op,
                  replace_var_refs(node.right, var_name, replacement))
    ELSE IF node.kind = "Call"
    THEN Call(node.func, replace_all_refs(node.args, var_name, replacement))
    ELSE node

\* Program constants of inline_functions.
MaxInlineDepth == 20
MaxCallInlineDepth == 10
MaxInlineBody == 5

inlinable_funcs(opt) ==
    {fn \in DOMAIN opt.function_defs :
        fn \notin opt.recursive_functions /\ Len(opt.function_defs[fn].body) <= MaxInlineBody}

\* The for loop over func_def.args: parameter i is replaced in the result of i - 1.
RECURSIVE substitute_params(_, _, _, _)
substitute_params(return_expr, params, processed_args, k) ==
    IF k > Len(params) THEN return_expr
    ELSE substitute_params(
            IF k <= Len(processed_args)
            THEN replace_var_refs(return_expr, params[k], processed_args[k])
            ELSE return_expr,
            params, processed_args, k + 1)

IsNullReturnBody(body) ==
    body = <<>>
    \/ (Len(body) = 1 /\ body[1].kind = "Return"
        /\ (body[1].value = NoneNode
            \/ (body[1].value.kind = "Constant" /\ body[1].value.ty = "null")))

IsSingleReturnBody(body) ==
    Len(body) = 1 /\ body[1].kind = "Return" /\ body[1].value # NoneNode

RECURSIVE inline_functions(_, _, _), inline_all(_, _, _)

inline_all(opt, nodes, depth) ==
    IF nodes = <<>> THEN <<>>
    ELSE <<inline_functions(opt, Head(nodes), depth)>> \o inline_all(opt, Tail(nodes), depth)

\* An expansion that continues two levels down instead of one.
inline_Call_two_levels_down(opt, node, depth) ==
    LET func_def == opt.function_defs[node.func]
        processed_args == inline_all(opt, node.args, depth + 1)
    IN IF IsNullReturnBody(func_def.body) THEN Call(node.func, processed_args)
       ELSE IF IsSingleReturnBody(func_def.body)
       THEN inline_functions(opt,
                substitute_params(func_def.body[1].value, func_def.params, processed_args, 1),
                depth + 2)
       ELSE Call(node.func, processed_args)

inline_Call(opt, node, depth) ==
    LET func_def == opt.function_defs[node.func]
        processed_args == inline_all(opt, node.args, depth + 1)
    IN IF IsNullReturnBody(func_def.body) THEN Call(node.func, processed_args)
       ELSE IF IsSingleReturnBody(func_def.body)
       THEN inline_functions(opt,
                substitute_params(func_def.body[1].value, func_def.params, processed_args, 1),
                depth + 1)
       ELSE Call(node.func, processed_args)

inline_functions(opt, node, depth) ==
    IF depth > MaxInlineDepth THEN node
    ELSE CASE node.kind = "Module" -> Module(inline_all(opt, node.body, depth + 1))
           [] node.kind = "Call" ->
                IF node.func \in inlinable_funcs(opt) /\ depth < MaxCallInlineDepth
                THEN inline_Call(opt, node, depth)
                ELSE Call(node.func, inline_all(opt, node.args, depth + 1))
           [] node.kind = "FunctionDef" ->
                FunctionDef(node.name, node.params, inline_all(opt, node.body, depth + 1))
           [] node.kind = "If" ->
                If(inline_functions(opt, node.test, depth + 1),
                   inline_all(opt, node.body, depth + 1),
                   inline_all(opt, node.orelse, depth + 1))
           [] node.kind = "For" ->
                For(node.target_node, inline_functions(opt, node.iter, depth + 1),
                    inline_all(opt, node.body, depth + 1))
           [] node.kind = "While" ->
                While(inline_functions(opt, node.test, depth + 1),
                      inline_all(opt, node.body, depth + 1))
           [] node.kind = "BinaryOp" ->
                BinaryOp(inline_functions(opt, node.left, depth + 1), node.op,
                         inline_functions(opt, node.right, depth + 1))
           [] node.kind = "Assignment" ->
                Assignment(node.target, inline_functions(opt, node.value, depth + 1))
           [] node.kind = "Return" ->
                IF node.value # NoneNode
                THEN Return(inline_functions(opt, node.value, depth + 1)) ELSE node
           [] OTHER -> node

(***************************************************************************)
(* Optimizer.optimize_recursive_functions and Optimizer._transform_fibonacci*)
(***************************************************************************)
\* A pass that leaves fib as it found it.
transform_fibonacci_keeping_body(func_def) == func_def

transform_fibonacci(func_def) ==
    LET param_name == func_def.params[1]
    IN FunctionDef(func_def.name, func_def.params,
        <<If(Compare(Name(param_name), <<"LT">>, <<IntC(2)>>),
             <<Return(Name(param_name))>>, <<>>),
          Assignment(S_a, IntC(0)),
          Assignment(S_b, IntC(1)),
          For(Name(S_i),
              Call(S_range, <<IntC(2), BinaryOp(Name(param_name), "ADD", IntC(1))>>),
              <<Assignment(S_c, BinaryOp(Name(S_a), "ADD", Name(S_b))),
                Assignment(S_a, Name(S_b)),
                Assignment(S_b, Name(S_c))>>),
          Return(Name(S_b))>>)

RECURSIVE optimize_recursive_functions(_), recopt_all(_)

recopt_all(nodes) ==
    IF nodes = <<>> THEN <<>>
    ELSE <<optimize_recursive_functions(Head(nodes))>> \o recopt_all(Tail(nodes))

optimize_recursive_functions(node) ==
    CASE node.kind = "Module" -> Module(recopt_all(node.body))
      [] node.kind = "FunctionDef" ->
            IF node.name = S_fib /\ Len(node.params) = 1 THEN transform_fibonacci(node)
            ELSE FunctionDef(node.name, node.params, recopt_all(node.body))
      [] node.kind = "If" ->
            If(optimize_recursive_functions(node.test), recopt_all(node.body),
               recopt_all(node.orelse))
      [] node.kind = "For" ->
            For(node.target_node, optimize_recursive_functions(node.iter),
                recopt_all(node.body))
      [] node.kind = "While" ->
            While(optimize_recursive_functions(node.test), recopt_all(node.body))
      [] OTHER -> node

(***************************************************************************)
(* Optimizer.optimize_tail_calls and Optimizer._find_tail_calls            *)
(***************************************************************************)
IsTailCall(stmt, name) ==
    stmt.kind = "Return" /\ stmt.value.kind = "Call" /\ stmt.value.func = name

find_tail_calls(func_def) ==
    {j \in 1..Len(func_def.body) : IsTailCall(func_def.body[j], func_def.name)}

RECURSIVE rebind_params(_, _, _), tail_loop_body(_, _, _)

\* One Assignment per parameter that has a call argument, in parameter order.
rebind_params(params, call_args, k) ==
    IF k > Len(params) THEN <<>>
    ELSE (IF k <= Len(call_args) THEN <<Assignment(params[k], call_args[k])>> ELSE <<>>)
         \o rebind_params(params, call_args, k + 1)

tail_loop_body(func_def, positions, k) ==
    IF k > Len(func_def.body) THEN <<>>
    ELSE (IF k \in positions
          THEN rebind_params(func_def.params, func_def.body[k].value.args, 1)
          ELSE <<func_def.body[k]>>)
         \o tail_loop_body(func_def, positions, k + 1)

save_originals(params) ==
    [k \in 1..Len(params) |-> Assignment(S_us \o params[k] \o S_orig, Name(params[k]))]

RECURSIVE optimize_tail_calls(_, _), tailopt_all(_, _)

tailopt_all(opt, nodes) ==
    IF nodes = <<>> THEN <<>>
    ELSE <<optimize_tail_calls(opt, Head(nodes))>> \o tailopt_all(opt, Tail(nodes))

optimize_tail_calls(opt, node) ==
    IF node.kind = "Module" THEN Module(tailopt_all(opt, node.body))
    ELSE IF node.kind = "FunctionDef" /\ node.name \in opt.recursive_functions
    THEN LET tail_call_positions == find_tail_calls(node)
         IN IF tail_call_positions # {}
            THEN FunctionDef(node.name, node.params,
                    save_originals(node.params)
                    \o <<While(BoolC(TRUE), tail_loop_body(node, tail_call_positions, 1))>>)
            ELSE FunctionDef(node.name, node.params, tailopt_all(opt, node.body))
    ELSE IF node.kind = "If"
    THEN If(node.test, tailopt_all(opt, node.body), tailopt_all(opt, node.orelse))
    ELSE node

(***************************************************************************)
(* Optimizer.eliminate_dead_code and Optimizer.is_dead_code                *)
(***************************************************************************)
is_dead_code(node) == node.kind = "Constant" /\ node.ty = "null"

RECURSIVE eliminate_dead_code(_), dce_all(_), dce_filter(_)

dce_all(nodes) ==
    IF nodes = <<>> THEN <<>>
    ELSE <<eliminate_dead_code(Head(nodes))>> \o dce_all(Tail(nodes))

dce_filter(body) ==
    IF body = <<>> THEN <<>>
    ELSE LET optimized_stmt == eliminate_dead_code(Head(body))
         IN (IF is_dead_code(optimized_stmt) THEN <<>> ELSE <<optimized_stmt>>)
            \o dce_filter(Tail(body))

eliminate_dead_code(node) ==
    IF node.kind = "Module" THEN Module(dce_filter(node.body))
    ELSE IF node.kind = "If"
    THEN IF node.test.kind = "Constant"
         THEN IF Truthy(node.test) THEN Module(dce_all(node.body))
              ELSE IF node.orelse # <<>> THEN Module(dce_all(node.orelse))
              ELSE NullC
         ELSE If(eliminate_dead_code(node.test), dce_all(node.body), dce_all(node.orelse))
    ELSE constant_fold(node)

(***************************************************************************)
(* Optimizer.optimize: the analysis, then the six passes in order.         *)
(***************************************************************************)
analyze(opt, ast_node) ==
    [function_defs |-> collect_functions(opt.function_defs, ast_node),
     recursive_functions |-> detect_recursive_functions(opt.recursive_functions, ast_node)]

optimize_result(ast_node) ==
    LET opt == analyze(NewOptimizer, ast_node)
    IN eliminate_dead_code(
         optimize_tail_calls(opt,
           optimize_recursive_functions(
             inline_functions(opt,
               eliminate_common_subexpressions(constant_fold(ast_node)), 0))))

(***************************************************************************)
(* The parser adapter (parser.py).  A source file is either missing, or    *)
(* text that ast.parse rejects, or text whose Python syntax tree is a      *)
(* record tagged "ast.<class>" with the fields of that class.  A Python    *)
(* constant is carried as the Constant the adapter builds from it.         *)
(***************************************************************************)
NoInputFile == [kind |-> "FileNotFoundError"]

SyntaxErrorSource == [kind |-> "SyntaxError"]

RECURSIVE convert_ast(_), convert_all(_)

convert_all(nodes) ==
    IF nodes = <<>> THEN <<>>
    ELSE <<convert_ast(Head(nodes))>> \o convert_all(Tail(nodes))

convert_ast(node) ==
    CASE node.kind = "ast.Module" -> Module(convert_all(node.body))
      [] node.kind = "ast.Assign" ->
            IF Len(node.targets) = 1 /\ node.targets[1].kind = "ast.Name"
            THEN Assignment(node.targets[1].id, convert_ast(node.value))
            ELSE NullC
      [] node.kind = "ast.Expr" -> Expr(convert_ast(node.value))
      [] node.kind = "ast.Call" ->
            IF node.func.kind = "ast.Name"
            THEN Call(node.func.id, convert_all(node.args))
            ELSE NullC
      [] node.kind = "ast.Name" -> Name(node.id)
      [] node.kind = "ast.Constant" -> node.value
      [] node.kind = "ast.BinOp" ->
            BinaryOp(convert_ast(node.left),
                     CASE node.op = "ast.Add"  -> "ADD"
                       [] node.op = "ast.Sub"  -> "SUB"
                       [] node.op = "ast.Mult" -> "MUL"
                       [] node.op = "ast.Div"  -> "DIV"
                       [] node.op = "ast.Mod"  -> "MOD"
                       [] OTHER                -> "UNKNOWN",
                     convert_ast(node.right))
      [] node.kind = "ast.Compare" ->
            Compare(convert_ast(node.left),
                    [j \in 1..Len(node.ops) |->
                        CASE node.ops[j] = "ast.Eq"    -> "EQ"
                          [] node.ops[j] = "ast.NotEq" -> "NE"
                          [] node.ops[j] = "ast.Lt"    -> "LT"
                          [] node.ops[j] = "ast.LtE"   -> "LE"
                          [] node.ops[j] = "ast.Gt"    -> "GT"
                          [] node.ops[j] = "ast.GtE"   -> "GE"
                          [] OTHER                     -> "UNKNOWN"],
                    convert_all(node.comparators))
      [] node.kind = "ast.BoolOp" ->
            BoolOp(IF node.op = "ast.And" THEN "AND" ELSE "OR", convert_all(node.values))
      [] node.kind = "ast.UnaryOp" ->
            UnaryOp(CASE node.op = "ast.Not"  -> "NOT"
                      [] node.op = "ast.USub" -> "NEG"
                      [] OTHER                -> "UNKNOWN",
                    convert_ast(node.operand))
      [] node.kind = "ast.If" ->
            If(convert_ast(node.test), convert_all(node.body), convert_all(node.orelse))
      [] node.kind = "ast.For" ->
            For(convert_ast(node.target), convert_ast(node.iter), convert_all(node.body))
      [] node.kind = "ast.While" -> While(convert_ast(node.test), convert_all(node.body))
      [] node.kind = "ast.List" -> ListNode(convert_all(node.elts))
      [] node.kind = "ast.FunctionDef" ->
            FunctionDef(node.name, node.args, convert_all(node.body))
      [] OTHER -> NullC

(***************************************************************************)
(* Input trees.  The driver hands the parser's Module to the optimizer     *)
(* and the generator; the model draws it from the bodies of at most        *)
(* MaxBody items (statements and function definitions).                    *)
(***************************************************************************)
MaxBody == 2
MaxLayoutBody == 2
MaxParams == 2

SeqsUpTo(S, n) == UNION {[1..k -> S] : k \in 0..n}

Print1 == Expr(Call(S_print, <<IntC(1)>>))
Print2 == Expr(Call(S_print, <<IntC(2)>>))

Statements ==
    { Print1, Print2,
      Assignment(S_x, IntC(1)),
      Assignment(S_x, BoolC(TRUE)),
      Assignment(S_x, FloatC(3, 1)),
      Assignment(S_x, StrC(S_s)),
      Assignment(S_x, NullC),
      Expr(Name(S_x)),
      Expr(Call(S_input, <<>>)),
      Expr(Call(S_len, <<Name(S_x)>>)),
      Expr(Call(S_int, <<Name(S_x)>>)),
      Expr(Call(S_f, <<IntC(1)>>)),
      Assignment(S_y, Call(S_g, <<>>)),
      Assignment(S_y, Call(S_print, <<IntC(1)>>)),
      Assignment(S_x, BinaryOp(Name(S_x), "ADD", IntC(1))),
      Assignment(S_x, BinaryOp(Name(S_x), "UNKNOWN", IntC(1))),
      Assignment(S_x, Compare(Name(S_x), <<"LT">>, <<IntC(1)>>)),
      Assignment(S_x, Compare(Name(S_x), <<"UNKNOWN">>, <<IntC(1)>>)),
      Assignment(S_x, UnaryOp("NEG", Name(S_x))),
      Assignment(S_x, UnaryOp("UNKNOWN", Name(S_x))),
      Assignment(S_x, BoolOp("AND", <<Name(S_x), Name(S_y)>>)),
      Assignment(S_x, ListNode(<<IntC(1), Name(S_x)>>)),
      If(Name(S_x), <<Print1>>, <<>>),
      If(Name(S_x), <<Print1>>, <<Print2>>),
      If(BoolC(TRUE), <<Print1>>, <<Print2>>),
      If(BoolC(TRUE), <<>>, <<>>),
      While(Name(S_x), <<Print1>>),
      While(BoolC(FALSE), <<Print1>>),
      For(Name(S_i), Call(S_range, <<IntC(0), IntC(2)>>),
          <<Expr(Call(S_print, <<Name(S_i)>>))>>),
      For(Name(S_i), Name(S_x), <<Print1>>) }

Functions ==
    { FunctionDef(S_f, <<S_a>>, <<Return(Name(S_a))>>),
      FunctionDef(S_f, <<S_a, S_b>>, <<Expr(Call(S_g, <<>>))>>),
      FunctionDef(S_g, <<>>, <<>>),
      FunctionDef(S_g, <<S_a>>, <<Expr(Call(S_g, <<Name(S_a)>>)), Return(NoneNode)>>),
      FunctionDef(S_f, <<S_a>>, <<If(BoolC(TRUE), <<Return(Name(S_a))>>, <<>>)>>) }

Programs == {Module(body) : body \in SeqsUpTo(Statements \cup Functions, MaxBody)}

(***************************************************************************)
(* What the driver is given to read: no file, text ast.parse rejects, or   *)
(* the syntax tree of a module of at most MaxSourceBody statements.        *)
(***************************************************************************)
MaxSourceBody == 2

AstName(id) == [kind |-> "ast.Name", id |-> id]

AstConstant(c) == [kind |-> "ast.Constant", value |-> c]

AstPass == [kind |-> "ast.Pass"]

SourceStatements ==
    { AstPass,
      [kind |-> "ast.Import"],
      [kind |-> "ast.Assign", targets |-> <<[kind |-> "ast.Tuple"]>>, value |-> AstName(S_x)],
      [kind |-> "ast.Assign", targets |-> <<AstName(S_x)>>, value |-> AstConstant(IntC(1))],
      [kind |-> "ast.Assign", targets |-> <<AstName(S_x)>>,
       value |-> [kind |-> "ast.BinOp", left |-> AstName(S_x), op |-> "ast.Pow",
                  right |-> AstConstant(IntC(2))]],
      [kind |-> "ast.Expr",
       value |-> [kind |-> "ast.Call", func |-> AstName(S_print),
                  args |-> <<AstConstant(IntC(1))>>]],
      [kind |-> "ast.If", test |-> AstName(S_x), body |-> <<AstPass>>, orelse |-> <<>>],
      [kind |-> "ast.While", test |-> AstName(S_x), body |-> <<AstPass>>],
      [kind |-> "ast.FunctionDef", name |-> S_f, args |-> <<S_a>>, body |-> <<AstPass>>],
      [kind |-> "ast.FunctionDef", name |-> S_f, args |-> <<S_a>>,
       body |-> <<[kind |-> "ast.Return", value |-> AstName(S_a)]>>] }

Sources ==
    {NoInputFile, SyntaxErrorSource}
    \cup {[kind |-> "ast.Module", body |-> body] : body \in SeqsUpTo(SourceStatements, MaxSourceBody)}

(***************************************************************************)
(* The driver (main.py): read, parse, optionally optimize, generate,       *)
(* write.  The optimizer's passes are the steps of Optimizer.optimize, in  *)
(* its order.  A run starts either at the driver's entry with a source, or *)
(* with a tree already in hand for the optimizer and the generator.  An    *)
(* exception ends the run in the handlers of main: exit code 1.            *)
(***************************************************************************)
NoOutputFile == <<-2>>

InitWith(trees, flags) ==
    /\ \/ src \in trees /\ ast = src /\ pc = "parsed"
       \/ src \in Sources /\ ast = NoneNode /\ pc = "start"
    /\ args_optimize \in flags
    /\ optimizer = NewOptimizer
    /\ codegen = NewCodeGenerator
    /\ out = NoBytes
    /\ output_file = NoOutputFile
    /\ exit_code = -1

Init == InitWith(Programs, BOOLEAN)

\* with open(args.input, 'r') as f: source = f.read()
Read ==
    /\ pc = "start"
    /\ pc' = IF src = NoInputFile THEN "failed" ELSE "read"
    /\ exit_code' = IF src = NoInputFile THEN 1 ELSE exit_code
    /\ UNCHANGED <<src, ast, args_optimize, optimizer, codegen, out, output_file>>

\* ast_tree = parser_instance.parse_file(source)
Parse ==
    /\ pc = "read"
    /\ ast' = IF src = SyntaxErrorSource THEN ast ELSE convert_ast(src)
    /\ pc' = IF src = SyntaxErrorSource THEN "failed" ELSE "parsed"
    /\ exit_code' = IF src = SyntaxErrorSource THEN 1 ELSE exit_code
    /\ UNCHANGED <<src, args_optimize, optimizer, codegen, out, output_file>>

\* optimizer.optimize: collect_functions and detect_recursive_functions
Analyze ==
    /\ pc = "parsed"
    /\ args_optimize
    /\ optimizer' = analyze(NewOptimizer, ast)
    /\ pc' = "analyzed"
    /\ UNCHANGED <<src, ast, args_optimize, codegen, out, output_file, exit_code>>

ConstantFold ==
    /\ pc = "analyzed"
    /\ ast' = constant_fold(ast)
    /\ pc' = "folded"
    /\ UNCHANGED <<src, args_optimize, optimizer, codegen, out, output_file, exit_code>>

EliminateCommonSubexpressions ==
    /\ pc = "folded"
    /\ ast' = eliminate_common_subexpressions(ast)
    /\ pc' = "cse_done"
    /\ UNCHANGED <<src, args_optimize, optimizer, codegen, out, output_file, exit_code>>

InlineFunctions ==
    /\ pc = "cse_done"
    /\ ast' = inline_functions(optimizer, ast, 0)
    /\ pc' = "inlined"
    /\ UNCHANGED <<src, args_optimize, optimizer, codegen, out, output_file, exit_code>>

OptimizeRecursiveFunctions ==
    /\ pc = "inlined"
    /\ ast' = optimize_recursive_functions(ast)
    /\ pc' = "rewritten"
    /\ UNCHANGED <<src, args_optimize, optimizer, codegen, out, output_file, exit_code>>

\* A tail-call pass that rewrites the tree it was given in place.
OptimizeTailCalls_in_place ==
    /\ pc = "rewritten"
    /\ ast' = optimize_tail_calls(optimizer, ast)
    /\ src' = ast'
    /\ pc' = "tail_done"
    /\ UNCHANGED <<args_optimize, optimizer, codegen, out, output_file, exit_code>>

OptimizeTailCalls ==
    /\ pc = "rewritten"
    /\ ast' = optimize_tail_calls(optimizer, ast)
    /\ pc' = "tail_done"
    /\ UNCHANGED <<src, args_optimize, optimizer, codegen, out, output_file, exit_code>>

EliminateDeadCode ==
    /\ pc = "tail_done"
    /\ ast' = eliminate_dead_code(ast)
    /\ pc' = "optimized"
    /\ UNCHANGED <<src, args_optimize, optimizer, codegen, out, output_file, exit_code>>

ReadyToGenerate == (pc = "parsed" /\ ~args_optimize) \/ pc = "optimized"

\* A driver that opens the output file before it generates.
Generate_opening_output_first ==
    /\ ReadyToGenerate
    /\ codegen' = generate_state(NewCodeGenerator, ast)
    /\ out' = returned(codegen')
    /\ pc' = IF codegen'.err = "none" THEN "generated" ELSE "failed"
    /\ exit_code' = IF codegen'.err = "none" THEN exit_code ELSE 1
    /\ output_file' = <<>>
    /\ UNCHANGED <<src, ast, args_optimize, optimizer>>

\* codegen = CodeGenerator(logger); bytecode = codegen.generate(ast_tree)
Generate ==
    /\ ReadyToGenerate
    /\ codegen' = generate_state(NewCodeGenerator, ast)
    /\ out' = returned(codegen')
    /\ pc' = IF codegen'.err = "none" THEN "generated" ELSE "failed"
    /\ exit_code' = IF codegen'.err = "none" THEN exit_code ELSE 1
    /\ UNCHANGED <<src, ast, args_optimize, optimizer, output_file>>

\* open(output_file, 'wb') and f.write(bytecode); main then returns.  The open
\* can fail (OSError), which the last handler of main turns into exit code 1.
Write ==
    /\ pc = "generated"
    /\ \E opened \in BOOLEAN :
          /\ output_file' = IF opened THEN out ELSE output_file
          /\ pc' = IF opened THEN "done" ELSE "failed"
          /\ exit_code' = IF opened THEN 0 ELSE 1
    /\ UNCHANGED <<src, ast, args_optimize, optimizer, codegen, out>>

Next ==
    \/ Read
    \/ Parse
    \/ Analyze
    \/ ConstantFold
    \/ EliminateCommonSubexpressions
    \/ InlineFunctions
    \/ OptimizeRecursiveFunctions
    \/ OptimizeTailCalls
    \/ EliminateDeadCode
    \/ Generate
    \/ Write

Spec == Init /\ [][Next]_vars

(***************************************************************************)
(* Reading the emitted bytes back: the instruction that starts at offset   *)
(* s, its 8-byte operand, and the instructions of a span of bytes.         *)
(***************************************************************************)
OpAt(st, s) == st.bytecode[s + 1]

OperandAt(st, s) == Unpack64(SubSeq(st.bytecode, s + 2, s + 9))

NameAt(st, s) == SubSeq(st.bytecode, s + 3, s + 2 + st.bytecode[s + 2])

StartsIn(st, a, b) == {s \in st.starts : a <= s /\ s < b}

JumpOpcodes == {OpCode.JMP, OpCode.JMP_IF_FALSE, OpCode.JMP_IF_TRUE, OpCode.CALL}

PushOpcodes ==
    {OpCode.LOAD_CONST, OpCode.LOAD_INT, OpCode.LOAD_VAR, OpCode.LOAD_FLOAT,
     OpCode.LOAD_NULL, OpCode.LOAD_BOOL, OpCode.STDIN}

PopOpcodes ==
    {OpCode.STORE, OpCode.PRINT, OpCode.POP, OpCode.ADD, OpCode.SUB, OpCode.MUL,
     OpCode.DIV, OpCode.MOD, OpCode.EQ, OpCode.NE, OpCode.LT, OpCode.LE, OpCode.GT,
     OpCode.GE, OpCode.AND, OpCode.OR, OpCode.JMP_IF_FALSE, OpCode.JMP_IF_TRUE,
     OpCode.RET}

\* Parameters of the function whose code starts at offset target (0 if none).
ParamCount(st, target) ==
    IF \E j \in 1..Len(st.regions) : st.regions[j].start = target
    THEN Len(st.regions[CHOOSE j \in 1..Len(st.regions) :
                            st.regions[j].start = target].params)
    ELSE 0

\* VM stack effect of one instruction: loads push one value; STORE, PRINT,
\* POP, conditional jumps, RET and binary operators consume one; CALL of a
\* k-parameter function is 1 - k; BUILD_LIST n is 1 - n; the rest is 0.
Effect(st, s) ==
    CASE OpAt(st, s) \in PushOpcodes       -> 1
      [] OpAt(st, s) \in PopOpcodes        -> -1
      [] OpAt(st, s) = OpCode.CALL         -> 1 - ParamCount(st, OperandAt(st, s))
      [] OpAt(st, s) = OpCode.BUILD_LIST   -> 1 - OperandAt(st, s)
      [] OTHER                             -> 0

RECURSIVE SumEffects(_, _)
SumEffects(st, S) ==
    IF S = {} THEN 0
    ELSE LET s == CHOOSE x \in S : TRUE
         IN Effect(st, s) + SumEffects(st, S \ {s})

StackEffect(st, a, b) == SumEffects(st, StartsIn(st, a, b))

Generated == pc = "generated"

(***************************************************************************)
(* C1.  Jump validity as stated: in the bytes generate returns, the        *)
(* operand of every JMP, JMP_IF_FALSE, JMP_IF_TRUE and CALL is an offset   *)
(* below len(bytes) at which an emitted instruction starts.  The code      *)
(* patches the jump of an empty main section, and the exit jump of a       *)
(* trailing If, While or For, with len(bytes) itself.                      *)
(***************************************************************************)
C1_JumpValidity ==
    Generated =>
        \A s \in codegen.starts :
            OpAt(codegen, s) \in JumpOpcodes =>
                /\ OperandAt(codegen, s) \in 0..(Len(out) - 1)
                /\ OperandAt(codegen, s) \in codegen.starts

(***************************************************************************)
(* C3.  Statement balance as stated: the code of every node visited in     *)
(* statement position (a Return aside) has net stack effect 0.  The code   *)
(* emits no POP after Expr(Call ...), so a call to input, len, int, float  *)
(* or a user function in statement position leaves its value behind.       *)
(***************************************************************************)
C3_StatementsBalanced ==
    Generated =>
        \A v \in codegen.visits :
            (v.pos = "stmt" /\ v.node.kind # "Return") =>
                StackEffect(codegen, v.start, v.end) = 0

(***************************************************************************)
(* C4.  Expression result as stated: the code of every node visited as an  *)
(* operand pushes exactly one value (net effect +1).  The code emits       *)
(* nothing for a Call to a name that is neither a builtin nor a known      *)
(* function, and PRINT consumes the argument of a Call to print.           *)
(***************************************************************************)
C4_ExpressionsPushOne ==
    Generated =>
        \A v \in codegen.visits :
            v.pos = "expr" => StackEffect(codegen, v.start, v.end) = 1

(***************************************************************************)
(* C6.  Constant opcode as stated: the code of Constant(v) is LOAD_CONST   *)
(* for a string, LOAD_INT with 8 operand bytes for an integer, LOAD_FLOAT  *)
(* for a float, LOAD_NULL for null, and LOAD_BOOL with one operand byte    *)
(* 1/0 for a boolean.  The code tests isinstance(v, int) before the bool   *)
(* test, so a boolean is emitted as LOAD_INT with 8 operand bytes.         *)
(***************************************************************************)
ConstantOpcode(c) ==
    CASE c.ty = "str"   -> OpCode.LOAD_CONST
      [] c.ty = "int"   -> OpCode.LOAD_INT
      [] c.ty = "float" -> OpCode.LOAD_FLOAT
      [] c.ty = "bool"  -> OpCode.LOAD_BOOL
      [] c.ty = "null"  -> OpCode.LOAD_NULL

C6_ConstantByDynamicType ==
    Generated =>
        \A v \in codegen.visits :
            v.node.kind = "Constant" =>
                /\ OpAt(codegen, v.start) = ConstantOpcode(v.node)
                /\ v.node.ty = "int" => v.end = v.start + 9
                /\ v.node.ty = "bool" =>
                        /\ v.end = v.start + 2
                        /\ out[v.start + 2] = v.node.num

(***************************************************************************)
(* Walking a tree: the nodes it contains, and the same tree with every     *)
(* If(Constant(true), B, E) replaced by the statements of B.               *)
(***************************************************************************)
Children(n) ==
    CASE n.kind \in {"Module", "FunctionDef"} -> n.body
      [] n.kind \in {"Assignment", "Expr"}    -> <<n.value>>
      [] n.kind = "BinaryOp"                  -> <<n.left, n.right>>
      [] n.kind = "UnaryOp"                   -> <<n.operand>>
      [] n.kind = "Compare"                   -> <<n.left>> \o n.comparators
      [] n.kind = "BoolOp"                    -> n.values
      [] n.kind = "Call"                      -> n.args
      [] n.kind = "If"                        -> <<n.test>> \o n.body \o n.orelse
      [] n.kind = "For"                       -> <<n.target_node, n.iter>> \o n.body
      [] n.kind = "While"                     -> <<n.test>> \o n.body
      [] n.kind = "ListNode"                  -> n.elts
      [] n.kind = "Return"                    -> <<n.value>>
      [] OTHER                                -> <<>>

RECURSIVE Subnodes(_)
Subnodes(n) == {n} \cup UNION {Subnodes(Children(n)[j]) : j \in 1..Len(Children(n))}

IsTrueIf(n) ==
    n.kind = "If" /\ n.test.kind = "Constant" /\ n.test.ty = "bool" /\ n.test.num = 1

RECURSIVE SpliceBody(_), SpliceNode(_)
SpliceBody(body) ==
    IF body = <<>> THEN <<>>
    ELSE (IF IsTrueIf(Head(body)) THEN SpliceBody(Head(body).body)
          ELSE <<SpliceNode(Head(body))>>) \o SpliceBody(Tail(body))

SpliceNode(n) ==
    CASE n.kind \in {"Module", "FunctionDef", "While", "For"} ->
            [n EXCEPT !.body = SpliceBody(@)]
      [] n.kind = "If" ->
            [n EXCEPT !.body = SpliceBody(@), !.orelse = SpliceBody(@)]
      [] OTHER -> n

Finished == pc \in {"generated", "failed"}

(***************************************************************************)
(* C2.  Constant branch elimination as stated: a program holding           *)
(* If(Constant(true), B, E), optimized and then generated, yields the      *)
(* bytes of the program in which the statements of B stand in place of     *)
(* that If.  constant_fold replaces the If by a Module holding B, and the  *)
(* generator emits a JMP for every Module it visits.                       *)
(***************************************************************************)
C2_TrueBranchCompilesAsBody ==
    (Generated /\ args_optimize /\ SpliceNode(src) # src) =>
        out = generate_result(NewCodeGenerator, optimize_result(SpliceNode(src)))

(***************************************************************************)
(* C5.  User calls as stated: wherever a Call names a FunctionDef of the   *)
(* Module body, its code is the code of its arguments in order followed    *)
(* by CALL with the offset at which that function's code starts.  The      *)
(* code looks the name up in function_addresses at the time of the visit,  *)
(* so a call placed in the body of an earlier function emits nothing.      *)
(***************************************************************************)
DefinedFunctions(tree) ==
    {tree.body[j].name : j \in {i \in 1..Len(tree.body) : tree.body[i].kind = "FunctionDef"}}

RECURSIVE ArgsChain(_, _, _, _)
ArgsChain(st, args, a, b) ==
    IF args = <<>> THEN a = b
    ELSE \E w \in st.visits :
            /\ w.node = Head(args) /\ w.pos = "expr" /\ w.start = a
            /\ ArgsChain(st, Tail(args), w.end, b)

C5_UserCallEmitsCALL ==
    Generated =>
        \A v \in codegen.visits :
            (v.node.kind = "Call" /\ v.node.func \in DefinedFunctions(ast)) =>
                /\ v.end >= v.start + 9
                /\ v.end - 9 \in codegen.starts
                /\ OpAt(codegen, v.end - 9) = OpCode.CALL
                /\ OperandAt(codegen, v.end - 9) = codegen.function_addresses[v.node.func]
                /\ ArgsChain(codegen, v.node.args, v.start, v.end - 9)

(***************************************************************************)
(* C9.  Rejection of a non-range For as stated: generate on a tree         *)
(* holding a For whose iter is not a Call to range ends in an error and    *)
(* returns no bytes.  The For branch has no else: it emits nothing and     *)
(* generate returns the rest of the program.                               *)
(***************************************************************************)
IsNonRangeFor(n) ==
    n.kind = "For" /\ ~(n.iter.kind = "Call" /\ n.iter.func = S_range)

BinaryTags == {"ADD", "SUB", "MUL", "DIV", "MOD"}
CompareTags == {"EQ", "NE", "LT", "LE", "GT", "GE"}
UnaryTags == {"NOT", "NEG"}

HasUnknownTag(n) ==
    \/ n.kind = "BinaryOp" /\ n.op \notin BinaryTags
    \/ n.kind = "Compare" /\ \E j \in 1..Len(n.ops) : n.ops[j] \notin CompareTags
    \/ n.kind = "UnaryOp" /\ n.op \notin UnaryTags

ParamNames == <<S_a, S_b, S_c, S_n>>

Params(k) == SubSeq(ParamNames, 1, k)

FnName(k) == IF k % 2 = 0 THEN S_f ELSE S_g

LayoutBodies(k) ==
    { <<>>,
      <<Return(IF k = 0 THEN NoneNode ELSE Name(ParamNames[k]))>>,
      <<Assignment(S_x, Call(S_f, <<IntC(1)>>)),
        If(Name(S_x), <<Return(Name(S_x))>>, <<Print1>>)>> }

LayoutFunctions ==
    UNION {{FunctionDef(FnName(k), Params(k), b) : b \in LayoutBodies(k)} :
           k \in 0..MaxParams}

LayoutStatements ==
    { Print1, Print2,
      Assignment(S_y, Call(S_g, <<IntC(2)>>)),
      While(Name(S_x), <<Print1>>) }

LayoutPrograms ==
    {Module(body) : body \in SeqsUpTo(LayoutFunctions \cup LayoutStatements, MaxLayoutBody)}

LayoutInit == InitWith(LayoutPrograms, BOOLEAN)

SpecLayout == LayoutInit /\ [][Next]_vars

FunctionDefsOf(body) == SelectSeq(body, LAMBDA n : n.kind = "FunctionDef")

MainOf(body) == SelectSeq(body, LAMBDA n : n.kind # "FunctionDef")

Reverse(s) == [j \in 1..Len(s) |-> s[Len(s) + 1 - j]]

\* Consecutive STORE instructions naming names[1], names[2], ... from offset s.
RECURSIVE StoresAt(_, _, _)
StoresAt(st, names, s) ==
    IF names = <<>> THEN TRUE
    ELSE /\ s \in st.starts
         /\ OpAt(st, s) = OpCode.STORE
         /\ NameAt(st, s) = Head(names)
         /\ StoresAt(st, Tail(names), s + 2 + Len(Head(names)))

EndsWithNullReturn(st, r) ==
    /\ r.end >= r.start + 2
    /\ r.end - 2 \in st.starts /\ OpAt(st, r.end - 2) = OpCode.LOAD_NULL
    /\ r.end - 1 \in st.starts /\ OpAt(st, r.end - 1) = OpCode.RET

\* The recorded function regions, in order, are those of defs and lie back
\* to back from offset a to offset b.
RECURSIVE FunctionsChain(_, _, _, _, _)
FunctionsChain(st, defs, j, a, b) ==
    IF defs = <<>> THEN a = b /\ j = Len(st.regions) + 1
    ELSE /\ j <= Len(st.regions)
         /\ st.regions[j].name = Head(defs).name
         /\ st.regions[j].params = Head(defs).params
         /\ st.regions[j].start = a
         /\ FunctionsChain(st, Tail(defs), j + 1, st.regions[j].end, b)

\* The statements stmts were visited in order, back to back from a to b.
RECURSIVE StatementsChain(_, _, _, _)
StatementsChain(st, stmts, a, b) ==
    IF stmts = <<>> THEN a = b
    ELSE \E v \in st.visits :
            /\ v.node = Head(stmts) /\ v.pos = "stmt" /\ v.start = a
            /\ StatementsChain(st, Tail(stmts), v.end, b)

(***************************************************************************)
(* C7.  Function prologue and epilogue: the code recorded for every        *)
(* FunctionDef of the module body, with parameters p1..pk, begins with k   *)
(* STORE instructions naming pk, ..., p1 in that order and ends with       *)
(* LOAD_NULL immediately followed by RET, whatever the body holds; the     *)
(* address kept in function_addresses is the start of such a region.       *)
(***************************************************************************)
C7_FunctionPrologueEpilogue ==
    Generated =>
        /\ Len(codegen.regions) = Len(FunctionDefsOf(ast.body))
        /\ \A j \in 1..Len(codegen.regions) :
              /\ codegen.regions[j].name = FunctionDefsOf(ast.body)[j].name
              /\ codegen.regions[j].params = FunctionDefsOf(ast.body)[j].params
              /\ StoresAt(codegen, Reverse(codegen.regions[j].params),
                          codegen.regions[j].start)
              /\ EndsWithNullReturn(codegen, codegen.regions[j])
        /\ \A name \in DOMAIN codegen.function_addresses :
              \E j \in 1..Len(codegen.regions) :
                  /\ codegen.regions[j].name = name
                  /\ codegen.regions[j].start = codegen.function_addresses[name]

\* A generated module holding a function of two or more parameters whose
\* body ends in Return.
C7_Witness ==
    /\ Generated
    /\ \E j \in 1..Len(ast.body) :
          /\ ast.body[j].kind = "FunctionDef"
          /\ Len(ast.body[j].params) >= 2
          /\ ast.body[j].body # <<>>
          /\ ast.body[j].body[Len(ast.body[j].body)].kind = "Return"

(***************************************************************************)
(* C8.  Module layout: the output of a top-level Module is a JMP at        *)
(* offset 0, the code of the FunctionDefs of the body in order of          *)
(* appearance, then the code of the other statements in source order; the  *)
(* JMP operand is the offset after the last function (9 without            *)
(* functions).  [print(1), print(2)] without optimization gives exactly    *)
(* JMP 9, LOAD_INT 1, PRINT, LOAD_INT 2, PRINT.                            *)
(***************************************************************************)
PrintOneTwoBytes ==
    <<23, 0, 0, 0, 0, 0, 0, 0, 9,
      3, 0, 0, 0, 0, 0, 0, 0, 1, 1,
      3, 0, 0, 0, 0, 0, 0, 0, 2, 1>>

C8_ModuleLayout ==
    Generated =>
        /\ 0 \in codegen.starts
        /\ OpAt(codegen, 0) = OpCode.JMP
        /\ FunctionsChain(codegen, FunctionDefsOf(ast.body), 1, 9, OperandAt(codegen, 0))
        /\ StatementsChain(codegen, MainOf(ast.body), OperandAt(codegen, 0), Len(out))
        /\ FunctionDefsOf(ast.body) = <<>> => OperandAt(codegen, 0) = 9
        /\ (ast = Module(<<Print1, Print2>>) /\ ~args_optimize) => out = PrintOneTwoBytes

\* A generated module in which a main statement precedes a function in the
\* source, so that the function's code has been moved ahead of it.
C8_Witness ==
    /\ Generated
    /\ \E i, j \in 1..Len(ast.body) :
          /\ i < j
          /\ ast.body[i].kind # "FunctionDef"
          /\ ast.body[j].kind = "FunctionDef"
    /\ OperandAt(codegen, 0) > 9
    /\ OperandAt(codegen, 0) < Len(out)

(***************************************************************************)
(* Driver runs over trees whose generation fails or succeeds.              *)
(***************************************************************************)
DriverStatements ==
    { Print1,
      Assignment(S_x, BinaryOp(Name(S_x), "UNKNOWN", IntC(1))),
      Assignment(S_x, Compare(Name(S_x), <<"UNKNOWN">>, <<IntC(1)>>)),
      While(BoolC(FALSE), <<Print1>>),
      FunctionDef(S_f, <<S_a>>, <<Return(Name(S_a))>>) }

DriverPrograms == {Module(body) : body \in SeqsUpTo(DriverStatements, MaxSourceBody)}

DriverInit == InitWith(DriverPrograms, BOOLEAN)

SpecDriver == DriverInit /\ [][Next]_vars

(***************************************************************************)
(* C11.  No partial output: the output file holds bytes only in a run in   *)
(* which reading, parsing, the optional optimization and generation all    *)
(* succeeded, and then it holds the generated bytes; a run that failed at  *)
(* any step has exit code 1 and no output file; a run that completed has   *)
(* exit code 0; and an exit code is set exactly when the run has ended.    *)
(***************************************************************************)
C11_NoPartialOutput ==
    /\ output_file # NoOutputFile =>
          /\ pc = "done"
          /\ src \notin {NoInputFile, SyntaxErrorSource}
          /\ codegen.err = "none"
          /\ output_file = out
          /\ out = generate_result(NewCodeGenerator, ast)
    /\ pc = "failed" => (exit_code = 1 /\ output_file = NoOutputFile)
    /\ pc = "done" => (exit_code = 0 /\ output_file # NoOutputFile)
    /\ pc \notin {"failed", "done"} => (exit_code = -1 /\ output_file = NoOutputFile)

\* A run that ended in the generator's CompilerError: exit code 1, nothing written.
C11_Witness ==
    /\ pc = "failed"
    /\ codegen.err # "none"
    /\ exit_code = 1
    /\ output_file = NoOutputFile

(***************************************************************************)
(* Trees for constant folding: every operator over every pair of atoms     *)
(* (integers up to MaxFoldInt, a float, a string, a boolean, null, a       *)
(* name), one more level above those, and each statement form holding      *)
(* them.                                                                   *)
(***************************************************************************)
MaxFoldInt == 1

FoldAtoms ==
    {IntC(n) : n \in 0..MaxFoldInt}
    \cup {FloatC(1, 1), StrC(S_s), BoolC(TRUE), NullC, Name(S_x)}

FoldExprs ==
    {BinaryOp(a, op, b) :
        a \in FoldAtoms, op \in {"ADD", "SUB", "MUL", "DIV", "MOD", "UNKNOWN"}, b \in FoldAtoms}
    \cup {UnaryOp(op, a) : op \in {"NOT", "NEG", "UNKNOWN"}, a \in FoldAtoms}
    \cup {Compare(a, <<op>>, <<b>>) :
            a \in FoldAtoms, op \in {"EQ", "NE", "LT", "GE", "UNKNOWN"}, b \in FoldAtoms}
    \cup {Compare(a, <<"LT", "LT">>, <<b, b>>) : a \in FoldAtoms, b \in FoldAtoms}
    \cup {Call(fn, <<a>>) : fn \in {S_len, S_abs, S_min, S_f}, a \in FoldAtoms}
    \cup {Call(S_max, <<a, b>>) : a \in FoldAtoms, b \in FoldAtoms}
    \cup {Call(S_min, <<>>)}

FoldNested ==
    {BinaryOp(e, "ADD", IntC(1)) : e \in FoldExprs}
    \cup {BinaryOp(IntC(1), "MUL", e) : e \in FoldExprs}
    \cup {UnaryOp("NOT", e) : e \in FoldExprs}
    \cup {Call(S_len, <<e>>) : e \in FoldExprs}
    \cup {BoolOp("AND", <<e, Name(S_x)>>) : e \in FoldExprs}
    \cup {ListNode(<<e>>) : e \in FoldExprs}

FoldStatements ==
    {Assignment(S_x, e) : e \in FoldExprs \cup FoldNested}
    \cup {Expr(e) : e \in FoldExprs}
    \cup {If(e, <<Assignment(S_x, BinaryOp(IntC(1), "ADD", IntC(1)))>>,
                <<While(BoolC(FALSE), <<Print1>>)>>) : e \in FoldExprs}
    \cup {While(e, <<If(BoolC(TRUE), <<Print1>>, <<>>)>>) : e \in FoldExprs}
    \cup {For(Name(S_i), e, <<Expr(e)>>) : e \in FoldExprs}
    \cup {FunctionDef(S_f, <<S_a>>, <<If(Name(S_a), <<Return(e)>>, <<Return(NoneNode)>>)>>) :
            e \in FoldExprs}

FoldPrograms == {Module(<<s>>) : s \in FoldStatements}

FoldInit == InitWith(FoldPrograms, {TRUE})

SpecFold == FoldInit /\ [][Next]_vars

(***************************************************************************)
(* C12.  Fold idempotence: the tree constant_fold returns is a fixed point *)
(* of constant_fold.                                                       *)
(***************************************************************************)
C12_FoldIdempotent ==
    pc = "folded" => constant_fold(ast) = ast

\* A fold that rewrote the tree it was given.
C12_Witness ==
    /\ pc = "folded"
    /\ src.kind = "Module"
    /\ ast # src
    /\ \E n \in Subnodes(src) : n.kind \in {"BinaryOp", "Compare", "Call"} /\ n \notin Subnodes(ast)

(***************************************************************************)
(* Trees for common-subexpression elimination: module bodies of at most    *)
(* MaxCseBody assignments that repeat an expression, reassign its          *)
(* operands, read input, or bind a string that spells a fingerprint.       *)
(***************************************************************************)
MaxCseBody == 3

SumAB == BinaryOp(Name(S_a), "ADD", Name(S_b))

CseStatements ==
    { Assignment(S_x, SumAB),
      Assignment(S_y, SumAB),
      Assignment(S_a, IntC(1)),
      Assignment(S_x, IntC(2)),
      Assignment(S_x, Call(S_input, <<>>)),
      Assignment(S_y, Call(S_input, <<>>)),
      Assignment(S_x, StrC(hash_expr(SumAB))),
      Assignment(S_y, Name(S_x)),
      Print1 }

CsePrograms == {Module(body) : body \in SeqsUpTo(CseStatements, MaxCseBody)}

CseInit == InitWith(CsePrograms, {TRUE})

SpecCse == CseInit /\ [][Next]_vars

\* The body the pass was given, and what the pass can be asked about it.
CseInput == constant_fold(src).body

CseDone == pc = "cse_done" /\ src.kind = "Module"

IsReusable(stmt) ==
    stmt.kind = "Assignment" /\ stmt.value.kind \notin {"Name", "Constant"}

NamesIn(e) == {n.id : n \in {m \in Subnodes(e) : m.kind = "Name"}}

ReadsInput(e) == \E n \in Subnodes(e) : n.kind = "Call" /\ n.func = S_input

Reused(k) ==
    /\ IsReusable(CseInput[k])
    /\ ast.body[k] # CseInput[k]
    /\ ast.body[k].kind = "Assignment"
    /\ ast.body[k].value.kind = "Name"

(***************************************************************************)
(* C13.  Meaning preservation as stated: where the pass has put Name(x) in *)
(* place of the value e of a module-level assignment, an earlier statement *)
(* bound x to e, e reads no input, x is not an operand of e, and no        *)
(* statement in between assigns x or an operand of e.  The pass compares   *)
(* fingerprints only.                                                      *)
(***************************************************************************)
C13_ReuseKeepsValue ==
    CseDone =>
        \A k \in 1..Len(CseInput) :
            Reused(k) =>
                \E j \in 1..(k - 1) :
                    /\ CseInput[j] = Assignment(ast.body[k].value.id, CseInput[k].value)
                    /\ ~ReadsInput(CseInput[k].value)
                    /\ CseInput[j].target \notin NamesIn(CseInput[k].value)
                    /\ \A i \in (j + 1)..(k - 1) :
                          CseInput[i].kind = "Assignment" =>
                              CseInput[i].target
                                  \notin {CseInput[j].target} \cup NamesIn(CseInput[k].value)

\* The first assignment of the body that carries the fingerprint of statement k.
FirstWithFingerprint(j, k) ==
    /\ j < k
    /\ CseInput[j].kind = "Assignment"
    /\ hash_expr(CseInput[j].value) = hash_expr(CseInput[k].value)
    /\ \A i \in 1..(j - 1) :
          CseInput[i].kind = "Assignment" =>
              hash_expr(CseInput[i].value) # hash_expr(CseInput[k].value)

UnreusableKept ==
    \A k \in 1..Len(CseInput) :
        (CseInput[k].kind = "Assignment" /\ ~IsReusable(CseInput[k])) => ast.body[k] = CseInput[k]

InlineBodies ==
    { BinaryOp(Name(S_a), "ADD", Name(S_b)),
      BinaryOp(Name(S_b), "SUB", Name(S_a)),
      Call(S_len, <<Name(S_a)>>),
      Compare(Name(S_a), <<"LT">>, <<Name(S_b)>>),
      UnaryOp("NEG", Name(S_a)),
      BoolOp("AND", <<Name(S_a), Name(S_b)>>),
      ListNode(<<Name(S_a), Name(S_b)>>),
      Name(S_b) }

InlineArgs == {Name(S_a), Name(S_b), Name(S_x), IntC(1), BinaryOp(Name(S_x), "MUL", Name(S_b))}

InlinePrograms ==
    {Module(<<FunctionDef(S_f, <<S_a, S_b>>, <<Return(e)>>),
              Assignment(S_y, Call(S_f, <<a1, a2>>))>>) :
        e \in InlineBodies, a1 \in InlineArgs, a2 \in InlineArgs}

InlineInit == InitWith(InlinePrograms, {TRUE})

SpecInline == InlineInit /\ [][Next]_vars

\* expr[p1 := a1, ..., pk := ak], all parameters at once, in every kind of node.
RECURSIVE Substitute(_, _, _)
Substitute(e, params, actuals) ==
    LET Each(nodes) == [j \in 1..Len(nodes) |-> Substitute(nodes[j], params, actuals)]
    IN CASE e.kind = "Name" ->
                IF \E j \in 1..Len(params) : params[j] = e.id
                THEN actuals[CHOOSE j \in 1..Len(params) : params[j] = e.id]
                ELSE e
         [] e.kind = "BinaryOp" ->
                BinaryOp(Substitute(e.left, params, actuals), e.op,
                         Substitute(e.right, params, actuals))
         [] e.kind = "UnaryOp" -> UnaryOp(e.op, Substitute(e.operand, params, actuals))
         [] e.kind = "Compare" ->
                Compare(Substitute(e.left, params, actuals), e.ops, Each(e.comparators))
         [] e.kind = "BoolOp" -> BoolOp(e.op, Each(e.values))
         [] e.kind = "ListNode" -> ListNode(Each(e.elts))
         [] e.kind = "Call" -> Call(e.func, Each(e.args))
         [] OTHER -> e

\* The tree the inlining pass was given.
InlineInput == eliminate_common_subexpressions(constant_fold(src)).body

\* Statement k assigns a call of a function whose body is a single Return.
InlinedCall(k) ==
    /\ InlineInput[k].kind = "Assignment"
    /\ InlineInput[k].value.kind = "Call"
    /\ InlineInput[k].value.func \in inlinable_funcs(optimizer)
    /\ IsSingleReturnBody(optimizer.function_defs[InlineInput[k].value.func].body)
    /\ Len(InlineInput[k].value.args)
          = Len(optimizer.function_defs[InlineInput[k].value.func].params)

(***************************************************************************)
(* C15.  Inlining as stated: the expression put in place of Call(f, args), *)
(* f's body being [Return(expr)], is expr with every parameter replaced by *)
(* its argument, all at once and in every kind of node.  The code          *)
(* substitutes one parameter after the other in the result of the          *)
(* previous substitution, and descends into BinaryOp and Call only.        *)
(***************************************************************************)
C15_InlineSubstitutes ==
    (pc = "inlined" /\ src.kind = "Module") =>
        \A k \in 1..Len(InlineInput) :
            InlinedCall(k) =>
                ast.body[k].value =
                    Substitute(optimizer.function_defs[InlineInput[k].value.func].body[1].value,
                               optimizer.function_defs[InlineInput[k].value.func].params,
                               InlineInput[k].value.args)

(***************************************************************************)
(* Trees for the recursive-function pass: functions named fib or fibo, of  *)
(* zero, one or two parameters, with an empty or a doubly recursive body,  *)
(* at module level or inside an If, in bodies of at most MaxFibBody items. *)
(***************************************************************************)
MaxFibBody == 2

S_fibo == S_fib \o <<111>>

FibRecursion(name, p) ==
    <<Return(BinaryOp(Call(name, <<BinaryOp(Name(p), "SUB", IntC(1))>>), "ADD",
                      Call(name, <<BinaryOp(Name(p), "SUB", IntC(2))>>)))>>

FibFunctions ==
    {FunctionDef(name, params, FibRecursion(name, S_n)) :
        name \in {S_fib, S_fibo}, params \in {<<>>, <<S_n>>, <<S_n, S_a>>}}
    \cup {FunctionDef(S_fib, <<S_a>>, <<>>), FunctionDef(S_fib, <<S_n>>, <<Print1>>)}

FibStatements ==
    FibFunctions
    \cup {If(Name(S_x), <<fn>>, <<>>) :
            fn \in {FunctionDef(name, <<S_n>>, FibRecursion(name, S_n)) : name \in {S_fib, S_fibo}}}
    \cup {Print1}

FibPrograms == {Module(body) : body \in SeqsUpTo(FibStatements, MaxFibBody)}

FibInit == InitWith(FibPrograms, {TRUE})

SpecFib == FibInit /\ [][Next]_vars

\* The tree the pass was given.
FibInput == inline_functions(optimizer, eliminate_common_subexpressions(constant_fold(src)), 0)

IsFib(fn) == fn.name = S_fib /\ Len(fn.params) = 1

\* The body the claim describes, for the parameter p.
IsIterativeFib(body, p) ==
    /\ Len(body) = 5
    /\ body[1] = If(Compare(Name(p), <<"LT">>, <<IntC(2)>>), <<Return(Name(p))>>, <<>>)
    /\ body[2] = Assignment(S_a, IntC(0))
    /\ body[3] = Assignment(S_b, IntC(1))
    /\ body[4].kind = "For"
    /\ body[4].iter = Call(S_range, <<IntC(2), BinaryOp(Name(p), "ADD", IntC(1))>>)
    /\ body[5] = Return(Name(S_b))

\* What the pass returned for the FunctionDef before.
FibRewritten(before, after) ==
    IF IsFib(before)
    THEN /\ after.kind = "FunctionDef"
         /\ after.name = before.name
         /\ after.params = before.params
         /\ IsIterativeFib(after.body, before.params[1])
         /\ after.body = transform_fibonacci(FunctionDef(before.name, before.params, <<>>)).body
    ELSE after = before

\* Every FunctionDef of the body before, directly in it or inside an If of it,
\* against the statement at the same place of the body after.
FibBodyRewritten(before, after) ==
    /\ Len(after) = Len(before)
    /\ \A k \in 1..Len(before) :
          CASE before[k].kind = "FunctionDef" -> FibRewritten(before[k], after[k])
            [] before[k].kind = "If" ->
                  /\ after[k].kind = "If"
                  /\ Len(after[k].body) = Len(before[k].body)
                  /\ \A j \in 1..Len(before[k].body) :
                        before[k].body[j].kind = "FunctionDef" =>
                            FibRewritten(before[k].body[j], after[k].body[j])
            [] OTHER -> after[k] = before[k]

FibBothCases(before, after) ==
    /\ \E k \in 1..Len(before) :
          /\ before[k].kind = "FunctionDef"
          /\ IsFib(before[k])
          /\ before[k].body # <<>>
          /\ after[k] # before[k]
    /\ \E k \in 1..Len(before) :
          /\ before[k].kind = "FunctionDef"
          /\ ~IsFib(before[k])
          /\ after[k] = before[k]

FalseWhiles ==
    { While(BoolC(FALSE), <<Print1>>),
      While(Compare(IntC(1), <<"LT">>, <<IntC(0)>>), <<Print1>>) }

DeadStatements ==
    FalseWhiles
    \cup {If(Name(S_x), <<w>>, <<>>) : w \in FalseWhiles}
    \cup {While(Name(S_x), <<w>>) : w \in FalseWhiles}
    \cup {FunctionDef(S_f, <<>>, <<w>>) : w \in FalseWhiles}
    \cup {Print1}

DeadPrograms == {Module(body) : body \in SeqsUpTo(DeadStatements, MaxBody)}

DeadInit == InitWith(DeadPrograms, BOOLEAN)

SpecDead == DeadInit /\ [][Next]_vars

\* The visits of null constants in statement position that appended bytes.
NullStatementsEmitted ==
    {v \in codegen.visits : v.pos = "stmt" /\ v.node = NullC /\ v.end > v.start}

(***************************************************************************)
(* C17.  False loops as stated: after optimize and generate no instruction *)
(* stands for a While whose test folds to a false constant, wherever the   *)
(* While is.  constant_fold leaves Constant(null) in its place, and only   *)
(* the statements of a Module body are filtered by eliminate_dead_code.    *)
(* (No tree of SpecDead holds a null statement of its own.)                *)
(***************************************************************************)
C17_FalseWhileEmitsNothing ==
    (Generated /\ args_optimize /\ src.kind = "Module") => NullStatementsEmitted = {}

(***************************************************************************)
(* C18.  Unsupported constructs as stated: a statement the parser adapter  *)
(* maps to Constant(null) adds no byte to the output, with and without     *)
(* optimization, wherever it is.  The generator emits LOAD_NULL for any    *)
(* Constant(null) it visits.  (The sources hold no loop with a constant    *)
(* test, so every null statement comes from the adapter.)                  *)
(***************************************************************************)
C18_UnsupportedEmitsNothing ==
    (Generated /\ src.kind = "ast.Module") => NullStatementsEmitted = {}

\* A call of name in one of the places the analysis is said to look at: the
\* value of a Return, an operand of a BinaryOp in it, the body of an If, For or While.
RECURSIVE CallsItself(_, _)
CallsItself(node, name) ==
    CASE node.kind = "Call" -> node.func = name
      [] node.kind = "Return" -> node.value # NoneNode /\ CallsItself(node.value, name)
      [] node.kind = "BinaryOp" ->
            CallsItself(node.left, name) \/ CallsItself(node.right, name)
      [] node.kind = "If" ->
            \/ \E j \in 1..Len(node.body) : CallsItself(node.body[j], name)
            \/ \E j \in 1..Len(node.orelse) : CallsItself(node.orelse[j], name)
      [] node.kind \in {"For", "While"} ->
            \E j \in 1..Len(node.body) : CallsItself(node.body[j], name)
      [] OTHER -> FALSE

(***************************************************************************)
(* C19.  Recursion detection as stated: after the analysis the recursion   *)
(* set holds every module-level function whose body calls the function's   *)
(* own name.  detect_recursive_functions hands the FunctionDef itself to    *)
(* _find_recursive_calls, which has no case for a FunctionDef.             *)
(***************************************************************************)
C19_RecursionDetected ==
    (pc = "analyzed" /\ src.kind = "Module") =>
        \A k \in 1..Len(src.body) :
            (/\ src.body[k].kind = "FunctionDef"
             /\ \E j \in 1..Len(src.body[k].body) :
                   CallsItself(src.body[k].body[j], src.body[k].name))
                => src.body[k].name \in optimizer.recursive_functions

(***************************************************************************)
(* Tail calls.  Accumulator functions f(n, acc) that return acc at n <= 0  *)
(* and otherwise end in return f(n - 1, <acc expression>), and a countdown *)
(* f(n).  optimize() never fills the recursion set (see C19), so the       *)
(* states in which the pass meets a function of the set are those of a      *)
(* caller that fills Optimizer.recursive_functions itself and calls         *)
(* optimize_tail_calls; TailInit has them beside the states of the driver.  *)
(***************************************************************************)
S_acc == <<97, 99, 99>>

MaxArg == 3

MaxSteps == 6

TailAccs ==
    { Name(S_acc),
      BinaryOp(Name(S_acc), "ADD", IntC(1)),
      BinaryOp(Name(S_acc), "ADD", Name(S_n)),
      BinaryOp(Name(S_acc), "MUL", Name(S_n)) }

StopAtZero(value) == If(Compare(Name(S_n), <<"LE">>, <<IntC(0)>>), <<Return(value)>>, <<>>)

TailFunctions ==
    { FunctionDef(S_f, <<S_n, S_acc>>,
        <<StopAtZero(Name(S_acc)),
          Return(Call(S_f, <<BinaryOp(Name(S_n), "SUB", IntC(1)), a>>))>>) : a \in TailAccs }
    \cup
    { FunctionDef(S_f, <<S_n>>,
        <<StopAtZero(IntC(0)),
          Return(Call(S_f, <<BinaryOp(Name(S_n), "SUB", IntC(1))>>))>>) }

TailStatements == TailFunctions \cup {Print1, Expr(Call(S_f, <<IntC(3), IntC(1)>>))}

TailPrograms == {Module(body) : body \in SeqsUpTo(TailStatements, MaxBody)}

\* The module-level functions of a program that end in a call of themselves.
TailRecursive(program) ==
    {program.body[k].name : k \in {j \in 1..Len(program.body) :
        /\ program.body[j].kind = "FunctionDef"
        /\ find_tail_calls(program.body[j]) # {}}}

TailInit ==
    \/ InitWith(TailPrograms, BOOLEAN)
    \/ /\ src \in TailPrograms
       /\ ast = src
       /\ pc = "rewritten"
       /\ args_optimize = TRUE
       /\ optimizer = [function_defs |-> collect_functions(NewOptimizer.function_defs, src),
                       recursive_functions |-> TailRecursive(src)]
       /\ codegen = NewCodeGenerator
       /\ out = NoBytes
       /\ output_file = NoOutputFile
       /\ exit_code = -1

SpecTail == TailInit /\ [][Next]_vars

(***************************************************************************)
(* The operational semantics of the tree, on integers: what a call of a    *)
(* function returns.  steps bounds the calls and loop rounds of one run.   *)
(***************************************************************************)
Bind(env, name, value) ==
    [n \in DOMAIN env \cup {name} |-> IF n = name THEN value ELSE env[n]]

RECURSIVE EvalExpr(_, _)
EvalExpr(e, env) ==
    CASE e.kind = "Name" -> env[e.id]
      [] e.kind = "Constant" -> e.num
      [] e.kind = "Compare" ->
            IF e.ops[1] = "LT"
            THEN IF EvalExpr(e.left, env) < EvalExpr(e.comparators[1], env) THEN 1 ELSE 0
            ELSE IF EvalExpr(e.left, env) <= EvalExpr(e.comparators[1], env) THEN 1 ELSE 0
      [] e.kind = "BinaryOp" ->
            CASE e.op = "ADD" -> EvalExpr(e.left, env) + EvalExpr(e.right, env)
              [] e.op = "SUB" -> EvalExpr(e.left, env) - EvalExpr(e.right, env)
              [] e.op = "MUL" -> EvalExpr(e.left, env) * EvalExpr(e.right, env)

Returned(value) == [kind |-> "return", value |-> value]

ReturnedNone == [kind |-> "return_none"]

FellThrough(env) == [kind |-> "fall", env |-> env]

OutOfSteps == [kind |-> "out_of_steps"]

\* The environment of a call: each parameter bound to its argument, the
\* arguments evaluated in the caller's environment.
CallEnv(params, call_args, env) ==
    [n \in {params[k] : k \in 1..Len(params)} |->
        EvalExpr(call_args[CHOOSE k \in 1..Len(params) : params[k] = n], env)]

AsCallResult(r) == IF r.kind = "fall" THEN ReturnedNone ELSE r

RECURSIVE RunBody(_, _, _, _), RunFor(_, _, _, _, _, _)

AndThen(r, rest, f, steps) ==
    IF r.kind = "fall" THEN RunBody(rest, r.env, f, steps) ELSE r

AndThenNext(r, stmts, f, steps, value, stop) ==
    IF r.kind = "fall" THEN RunFor(stmts, r.env, f, steps, value, stop) ELSE r

\* The For at the head of stmts from the value on, its range evaluated once
\* before the first round, and then the statements after it.
RunFor(stmts, env, f, steps, value, stop) ==
    IF value >= stop THEN RunBody(Tail(stmts), env, f, steps)
    ELSE AndThenNext(RunBody(Head(stmts).body,
                             Bind(env, Head(stmts).target_node.id, value), f, steps),
                     stmts, f, steps, value + 1, stop)

RunBody(stmts, env, f, steps) ==
    IF stmts = <<>> THEN FellThrough(env)
    ELSE CASE Head(stmts).kind = "Return" ->
                IF Head(stmts).value.kind = "Call" /\ Head(stmts).value.func = f.name
                THEN IF steps = 0 THEN OutOfSteps
                     ELSE AsCallResult(
                            RunBody(f.body, CallEnv(f.params, Head(stmts).value.args, env),
                                    f, steps - 1))
                ELSE Returned(EvalExpr(Head(stmts).value, env))
           [] Head(stmts).kind = "Assignment" ->
                RunBody(Tail(stmts),
                        Bind(env, Head(stmts).target, EvalExpr(Head(stmts).value, env)),
                        f, steps)
           [] Head(stmts).kind = "If" ->
                AndThen(RunBody(IF EvalExpr(Head(stmts).test, env) # 0
                                THEN Head(stmts).body ELSE Head(stmts).orelse,
                                env, f, steps),
                        Tail(stmts), f, steps)
           [] Head(stmts).kind = "While" ->
                IF EvalExpr(Head(stmts).test, env) = 0 THEN RunBody(Tail(stmts), env, f, steps)
                ELSE IF steps = 0 THEN OutOfSteps
                ELSE AndThen(RunBody(Head(stmts).body, env, f, steps - 1),
                             stmts, f, steps - 1)
           [] Head(stmts).kind = "For" ->
                RunFor(stmts, env, f, steps,
                       EvalExpr(Head(stmts).iter.args[1], env),
                       EvalExpr(Head(stmts).iter.args[2], env))
           [] OTHER -> RunBody(Tail(stmts), env, f, steps)

\* f(values[1], ..., values[n])
CallResult(f, values, steps) ==
    AsCallResult(RunBody(f.body,
                         [n \in {f.params[k] : k \in 1..Len(f.params)} |->
                             values[CHOOSE k \in 1..Len(f.params) : f.params[k] = n]],
                         f, steps))

SameWhereReturns(original, rewritten) ==
    original.kind = "return" => rewritten = original

TailCallsPreserved(before, after, recursive_functions) ==
    \A k \in 1..Len(before.body) :
        (/\ before.body[k].kind = "FunctionDef"
         /\ before.body[k].name \in recursive_functions
         /\ find_tail_calls(before.body[k]) # {})
            => \A values \in [1..Len(before.body[k].params) -> 0..MaxArg] :
                   SameWhereReturns(CallResult(before.body[k], values, MaxSteps),
                                    CallResult(after.body[k], values, 2 * MaxSteps))

MaxVmSteps == 150

IntV(n) == [t |-> "int", v |-> n]

NullV == [t |-> "null", v |-> 0]

NewMachine(ip) ==
    [ip |-> ip, stack |-> <<>>, variables |-> [n \in {} |-> NullV], printed |-> <<>>,
     calls |-> <<>>, status |-> "running", stores |-> {}]

InstrName(code, ip) == SubSeq(code, ip + 3, ip + 2 + code[ip + 2])

InstrOperand(code, ip) == Unpack64(SubSeq(code, ip + 2, ip + 9))

Push(m, value, size) == [m EXCEPT !.stack = Append(@, value), !.ip = @ + size]

Top(m) == m.stack[Len(m.stack)]

Below(m) == m.stack[Len(m.stack) - 1]

Popped(m, k) == SubSeq(m.stack, 1, Len(m.stack) - k)

Halted(m, status) == [m EXCEPT !.status = status]

Arithmetic(op, l, r) ==
    CASE op = OpCode.ADD -> l + r
      [] op = OpCode.SUB -> l - r
      [] op = OpCode.MUL -> l * r
      [] op = OpCode.EQ -> IF l = r THEN 1 ELSE 0
      [] op = OpCode.NE -> IF l # r THEN 1 ELSE 0
      [] op = OpCode.LT -> IF l < r THEN 1 ELSE 0
      [] op = OpCode.LE -> IF l <= r THEN 1 ELSE 0
      [] op = OpCode.GT -> IF l > r THEN 1 ELSE 0
      [] op = OpCode.GE -> IF l >= r THEN 1 ELSE 0

ArithmeticOpcodes ==
    {OpCode.ADD, OpCode.SUB, OpCode.MUL, OpCode.EQ, OpCode.NE, OpCode.LT, OpCode.LE,
     OpCode.GT, OpCode.GE}

VmStep(code, m) ==
    IF m.ip >= Len(code) THEN Halted(m, "end")
    ELSE CASE code[m.ip + 1] = OpCode.LOAD_INT -> Push(m, IntV(InstrOperand(code, m.ip)), 9)
           [] code[m.ip + 1] = OpCode.LOAD_BOOL -> Push(m, IntV(code[m.ip + 2]), 2)
           [] code[m.ip + 1] = OpCode.LOAD_NULL -> Push(m, NullV, 1)
           [] code[m.ip + 1] = OpCode.LOAD_VAR ->
                IF InstrName(code, m.ip) \in DOMAIN m.variables
                THEN Push(m, m.variables[InstrName(code, m.ip)], 2 + code[m.ip + 2])
                ELSE Halted(m, "unbound")
           [] code[m.ip + 1] = OpCode.STORE ->
                IF m.stack = <<>> THEN Halted(m, "underflow")
                ELSE [m EXCEPT !.variables = Bind(@, InstrName(code, m.ip), Top(m)),
                               !.stores = @ \cup {InstrName(code, m.ip)},
                               !.stack = Popped(m, 1),
                               !.ip = @ + 2 + code[m.ip + 2]]
           [] code[m.ip + 1] = OpCode.PRINT ->
                IF m.stack = <<>> THEN Halted(m, "underflow")
                ELSE [m EXCEPT !.printed = Append(@, Top(m)),
                               !.stack = Popped(m, 1), !.ip = @ + 1]
           [] code[m.ip + 1] = OpCode.POP ->
                IF m.stack = <<>> THEN Halted(m, "underflow")
                ELSE [m EXCEPT !.stack = Popped(m, 1), !.ip = @ + 1]
           [] code[m.ip + 1] \in ArithmeticOpcodes ->
                IF Len(m.stack) < 2 THEN Halted(m, "underflow")
                ELSE IF Top(m).t # "int" \/ Below(m).t # "int" THEN Halted(m, "type")
                ELSE [m EXCEPT !.stack = Append(Popped(m, 2),
                                   IntV(Arithmetic(code[m.ip + 1], Below(m).v, Top(m).v))),
                               !.ip = @ + 1]
           [] code[m.ip + 1] = OpCode.JMP -> [m EXCEPT !.ip = InstrOperand(code, m.ip)]
           [] code[m.ip + 1] \in {OpCode.JMP_IF_TRUE, OpCode.JMP_IF_FALSE} ->
                IF m.stack = <<>> THEN Halted(m, "underflow")
                ELSE [m EXCEPT !.stack = Popped(m, 1),
                               !.ip = IF (Top(m).v # 0) = (code[m.ip + 1] = OpCode.JMP_IF_TRUE)
                                      THEN InstrOperand(code, m.ip) ELSE @ + 9]
           [] code[m.ip + 1] = OpCode.CALL ->
                [m EXCEPT !.calls = Append(@, m.ip + 9), !.ip = InstrOperand(code, m.ip)]
           [] code[m.ip + 1] = OpCode.RET ->
                IF m.calls = <<>> THEN Halted(m, "returned")
                ELSE [m EXCEPT !.calls = SubSeq(@, 1, Len(@) - 1), !.ip = m.calls[Len(m.calls)]]
           [] OTHER -> Halted(m, "unsupported")

RECURSIVE VmRun(_, _, _)
VmRun(code, m, steps) ==
    IF m.status # "running" THEN m
    ELSE IF steps = 0 THEN Halted(m, "out_of_steps")
    ELSE VmRun(code, VmStep(code, m), steps - 1)

\* The machine after running the whole program from offset 0.
Execution(code) == VmRun(code, NewMachine(0), MaxVmSteps)

(***************************************************************************)
(* Counted loops: for i in range(s, e) over integer constants, with a body *)
(* that prints i first (and may then assign i or another variable), or an  *)
(* empty body; alone, followed by a print, or between two prints.          *)
(***************************************************************************)
MaxRange == 3

PrintI == Expr(Call(S_print, <<Name(S_i)>>))

ForBodies ==
    { <<>>, <<PrintI>>, <<PrintI, Assignment(S_i, IntC(0))>>,
      <<PrintI, Assignment(S_x, Name(S_i))>> }

CountedFors ==
    { For(Name(S_i), Call(S_range, <<IntC(s), IntC(e)>>), body) :
        s \in 0..MaxRange, e \in 0..MaxRange, body \in ForBodies }

ForPrograms ==
    {Module(<<f>>) : f \in CountedFors}
    \cup {Module(<<f, Print2>>) : f \in CountedFors}
    \cup {Module(<<Print1, f, Print2>>) : f \in CountedFors}

ForInit == InitWith(ForPrograms, BOOLEAN)

SpecFor == ForInit /\ [][Next]_vars

\* s, s + 1, ..., e - 1 as printed values
RECURSIVE Counting(_, _)
Counting(s, e) == IF s >= e THEN <<>> ELSE <<IntV(s)>> \o Counting(s + 1, e)

\* What the statements of a program of ForPrograms print when each loop
\* runs its body once per value of range(s, e), in order.
RECURSIVE CountedOutput(_)
CountedOutput(stmts) ==
    IF stmts = <<>> THEN <<>>
    ELSE (IF Head(stmts).kind = "For"
          THEN IF Head(stmts).body = <<>> THEN <<>>
               ELSE Counting(Head(stmts).iter.args[1].num, Head(stmts).iter.args[2].num)
          ELSE <<IntV(Head(stmts).value.args[1].num)>>)
         \o CountedOutput(Tail(stmts))

RunsAsCounted(m, stmts) == m.status = "end" /\ m.printed = CountedOutput(stmts)

MaxFibArg == 6

RECURSIVE Fibonacci(_)
Fibonacci(k) == IF k < 2 THEN k ELSE Fibonacci(k - 1) + Fibonacci(k - 2)

ComputesFibonacci(fn) ==
    \A k \in 0..MaxFibArg : CallResult(fn, <<k>>, MaxSteps) = Returned(Fibonacci(k))

(***************************************************************************)
(* C22.  The body the fib rewrite installs as stated: called with its      *)
(* parameter bound to n >= 0, every rewritten function returns F(n), the   *)
(* value of b after the loop.  The body's fixed names a, b, c and i are    *)
(* not kept apart from the parameter's name.                               *)
(***************************************************************************)
C22_RewrittenFibComputesFibonacci ==
    (pc = "rewritten" /\ ast.kind = "Module") =>
        \A k \in 1..Len(ast.body) :
            (ast.body[k].kind = "FunctionDef" /\ IsFib(ast.body[k]))
                => ComputesFibonacci(ast.body[k])

(***************************************************************************)
(* Operations on constants that the host refuses: a division or a modulo   *)
(* by a numeric zero, which the fold does not attempt, and the operations  *)
(* whose evaluation raises TypeError for the operand types.                *)
(***************************************************************************)
DividesByZero(e) ==
    e.kind = "BinaryOp" /\ e.op \in {"DIV", "MOD"} /\ IsNum(e.right) /\ e.right.num = 0

BinaryRaises(op, l, r) ==
    CASE op = "ADD" -> ~((IsNum(l) /\ IsNum(r)) \/ (l.ty = "str" /\ r.ty = "str"))
      [] op = "SUB" -> ~(IsNum(l) /\ IsNum(r))
      [] op = "MUL" -> ~(\/ IsNum(l) /\ IsNum(r)
                         \/ l.ty = "str" /\ r.ty \in {"int", "bool"}
                         \/ l.ty \in {"int", "bool"} /\ r.ty = "str")
      [] op \in {"DIV", "MOD"} -> ~(IsNum(l) /\ IsNum(r))
      [] OTHER -> FALSE

CallRaises(func, args) ==
    \/ func = S_abs /\ Len(args) = 1 /\ ~IsNum(args[1])
    \/ /\ func \in {S_min, S_max}
       /\ Len(args) = 2
       /\ ~((IsNum(args[1]) /\ IsNum(args[2])) \/ (args[1].ty = "str" /\ args[2].ty = "str"))

HostRaises(e) ==
    CASE e.kind = "BinaryOp" -> BinaryRaises(e.op, e.left, e.right)
      [] e.kind = "UnaryOp" -> e.op = "NEG" /\ ~IsNum(e.operand)
      [] e.kind = "Compare" ->
            /\ Len(e.ops) = 1
            /\ e.ops[1] \in {"LT", "LE", "GT", "GE"}
            /\ ~(\/ IsNum(e.left) /\ IsNum(e.comparators[1])
                 \/ e.left.ty = "str" /\ e.comparators[1].ty = "str")
      [] e.kind = "Call" -> CallRaises(e.func, e.args)
      [] OTHER -> FALSE

\* The operation with each operand replaced by what the fold makes of it.
WithFoldedOperands(e) ==
    CASE e.kind = "BinaryOp" -> BinaryOp(constant_fold(e.left), e.op, constant_fold(e.right))
      [] e.kind = "UnaryOp" -> UnaryOp(e.op, constant_fold(e.operand))
      [] e.kind = "Compare" -> Compare(constant_fold(e.left), e.ops, fold_all(e.comparators))
      [] e.kind = "Call" -> Call(e.func, fold_all(e.args))
      [] OTHER -> e

OperandsConstant(e) ==
    CASE e.kind = "BinaryOp" -> e.left.kind = "Constant" /\ e.right.kind = "Constant"
      [] e.kind = "UnaryOp" -> e.operand.kind = "Constant"
      [] e.kind = "Compare" -> e.left.kind = "Constant" /\ AllConstant(e.comparators)
      [] e.kind = "Call" -> AllConstant(e.args)
      [] OTHER -> FALSE

Refused(e) == OperandsConstant(e) /\ (DividesByZero(e) \/ HostRaises(e))

KeptIfRefused(e, result) == Refused(e) => result = e

IsFoldedValue == pc = "folded" /\ src \in FoldPrograms /\ src.body[1].kind \in {"Assignment", "Expr"}

OptimizerStep ==
    /\ pc \in {"parsed", "analyzed", "folded", "cse_done", "inlined", "rewritten", "tail_done"}
    /\ pc' \in {"analyzed", "folded", "cse_done", "inlined", "rewritten", "tail_done",
                "optimized"}

MaxCarried == 30

ReuseStatements ==
    { Print1, Print2,
      FunctionDef(S_f, <<S_a>>, <<Print1>>),
      Expr(Call(S_f, <<IntC(1)>>)),
      Expr(Call(S_range, <<StrC(S_s), IntC(1)>>)) }

ReusePrograms == {Module(body) : body \in SeqsUpTo(ReuseStatements, 1)}

GenerateAgain ==
    /\ pc = "generated" \/ (pc = "failed" /\ codegen.err # "none")
    /\ Len(codegen.bytecode) <= MaxCarried
    /\ \E t \in ReusePrograms :
          /\ ast' = t
          /\ codegen' = generate_state([codegen EXCEPT !.err = "none"], t)
    /\ out' = returned(codegen')
    /\ pc' = IF codegen'.err = "none" THEN "generated" ELSE "failed"
    /\ UNCHANGED <<src, args_optimize, optimizer, output_file, exit_code>>

ReuseInit == InitWith(ReusePrograms, BOOLEAN)

NextReuse == Next \/ GenerateAgain

SpecReuse == ReuseInit /\ [][NextReuse]_vars

(***************************************************************************)
(* C25.  generate as stated: the bytes a call returns are those a freshly  *)
(* constructed CodeGenerator returns for the same tree, whatever calls the *)
(* instance has served before.                                             *)
(***************************************************************************)
C25_GenerateDependsOnTreeOnly ==
    Generated => out = generate_result(NewCodeGenerator, ast)

(***************************************************************************)
(* Fingerprints.  Expressions over BinaryOp, Call, Name and Constant that  *)
(* differ only in what the text of the fingerprint does not show: a name   *)
(* against the string constant of the same text, one argument holding a    *)
(* comma against two arguments, a sum against the string that spells it.   *)
(* A program assigns one of them to x and one to y.                        *)
(***************************************************************************)
S_ab == S_a \o <<44>> \o S_b

HashExprs ==
    { Call(S_f, <<Name(S_a)>>), Call(S_f, <<StrC(S_a)>>),
      Call(S_f, <<Name(S_a), Name(S_b)>>), Call(S_f, <<StrC(S_ab)>>),
      Call(S_f, <<IntC(1)>>), Call(S_f, <<StrC(<<49>>)>>),
      BinaryOp(Name(S_a), "ADD", Name(S_b)),
      BinaryOp(Name(S_a), "ADD", StrC(S_b)),
      BinaryOp(Name(S_a), "SUB", Name(S_b)) }

HashPrograms ==
    {Module(<<Assignment(S_x, e1), Assignment(S_y, e2)>>) : e1 \in HashExprs, e2 \in HashExprs}

HashInit == InitWith(HashPrograms, {TRUE})

SpecHash == HashInit /\ [][Next]_vars

\* first and second are the values of the two assignments the pass was
\* given, result is the value of the second assignment it returned.
NotIdentified(first, second, result) ==
    /\ hash_expr(first) = hash_expr(second) => first = second
    /\ result = Name(S_x) => first = second

(***************************************************************************)
(* C26.  The fingerprint as stated: two expressions built from BinaryOp,   *)
(* Call, Name and Constant have the same _hash_expr text only if they are  *)
(* structurally equal, and the pass replaces the second by a reference to  *)
(* the first only then.                                                    *)
(***************************************************************************)
C26_FingerprintInjective ==
    (pc = "cse_done" /\ src \in HashPrograms) =>
        NotIdentified(constant_fold(src).body[1].value, constant_fold(src).body[2].value,
                      ast.body[2].value)

(***************************************************************************)
(* Inlining of functions that call themselves or each other.  f(n) returns *)
(* f(n - 1); g(n) returns h(n - 1) and h(n) returns g(n).  The program     *)
(* assigns y = fn(x) under j nested Ifs, so that the Call stands at depth  *)
(* j + 2 of the pass: Module 0, statement 1, ..., Assignment j + 1.        *)
(***************************************************************************)
MaxNesting == 11

S_h == <<104>>

ChainCall(fn, arg) == Call(fn, <<arg>>)

ChainDef(fn, callee, arg) == FunctionDef(fn, <<S_n>>, <<Return(ChainCall(callee, arg))>>)

ChainDefs ==
    { <<ChainDef(S_f, S_f, BinaryOp(Name(S_n), "SUB", IntC(1)))>>,
      <<ChainDef(S_g, S_h, BinaryOp(Name(S_n), "SUB", IntC(1))), ChainDef(S_h, S_g, Name(S_n))>> }

RECURSIVE Nest(_, _)
Nest(stmt, j) == IF j = 0 THEN stmt ELSE If(Name(S_x), <<Nest(stmt, j - 1)>>, <<>>)

ChainProgram(defs, k, j) ==
    Module(defs \o <<Nest(Assignment(S_y, ChainCall(defs[k].name, Name(S_x))), j)>>)

ChainPrograms ==
    {ChainProgram(defs, 1, j) : defs \in ChainDefs, j \in 0..MaxNesting}
    \cup {ChainProgram(defs, Len(defs), j) : defs \in ChainDefs, j \in 0..MaxNesting}

ChainInit == InitWith(ChainPrograms, {TRUE})

SpecChain == ChainInit /\ [][Next]_vars

\* The definition named fn among defs.
DefOf(defs, fn) == defs[CHOOSE k \in 1..Len(defs) : defs[k].name = fn]

\* call with its callee's body put in its place, rounds times over.
RECURSIVE Unfolded(_, _, _)
Unfolded(defs, call, rounds) ==
    IF rounds <= 0 THEN call
    ELSE Unfolded(defs,
                  Substitute(DefOf(defs, call.func).body[1].value,
                             DefOf(defs, call.func).params, call.args),
                  rounds - 1)

\* What the pass returns when it expands a Call at every depth below
\* MaxCallInlineDepth and one level further down each time: the call of
\* the assignment stands at depth j + 2, the calls of the bodies at 3.
ExpectedChain(defs, k, j) ==
    Module([d \in 1..Len(defs) |->
               FunctionDef(defs[d].name, defs[d].params,
                   <<Return(Unfolded(defs, defs[d].body[1].value, MaxCallInlineDepth - 3))>>)]
           \o <<Nest(Assignment(S_y,
                        Unfolded(defs, ChainCall(defs[k].name, Name(S_x)),
                                 MaxCallInlineDepth - (j + 2))), j)>>)

FrameNames == {S_a, S_b, S_c, S_i}

StoredNames(st) == {NameAt(st, s) : s \in {s \in st.starts : OpAt(st, s) = OpCode.STORE}}

\* The names stored by the code generated for the function alone.
StoredBy(fn) == StoredNames(generate_state(NewCodeGenerator, Module(<<fn>>)))

CallingProgram(fn, v, k) ==
    Module(<<fn, Assignment(v, IntC(7)), Assignment(S_y, Call(fn.name, <<IntC(k)>>))>>)

AfterCall(fn, v, k) == Execution(generate_result(NewCodeGenerator, CallingProgram(fn, v, k)))

LeavesVariable(fn, v, k) ==
    /\ AfterCall(fn, v, k).status = "end"
    /\ v \in DOMAIN AfterCall(fn, v, k).variables
    /\ AfterCall(fn, v, k).variables[v] = IntV(7)

====
